---- MODULE Spec2Model ----
(***************************************************************************)
(* A model of the real-time ingestion-and-broadcast pipeline of            *)
(* emergency-copilot-api:                                                  *)
(*   - SSEManager            (src/src/services/sse.ts)                     *)
(*   - SnapshotBuffer        (src/src/services/snapshotBuffer.ts)          *)
(*   - SnapshotWebSocketManager and the incident grouper                   *)
(*     (src/src/services/snapshotWebSocket.ts, incidentGrouper.ts)         *)
(* The process is a single-threaded event loop: the synchronous part of a  *)
(* handler up to its next `await` is one atomic action, and every `await`  *)
(* of an I/O call is a point where other handlers may run.                 *)
(***************************************************************************)
EXTENDS Integers, Sequences, FiniteSets, TLC

VARIABLES
    \* ---- SSEManager --------------------------------------------------
    clients,                \* Map<clientId, {res, incidentId}>
    incidentSubscriptions,  \* Map<incidentId, Set<clientId>>
    resState,               \* per response object: "unused" | "open" | "closed"
    resId,                  \* the id a response was registered under (closure of setupClient)
    resTopic,               \* the incident a response was opened for, or NoTopic
    resLog,                 \* what has been written to each response, in order
    fetchPc,                \* sendCurrentState of a response: "none" | "pending" | "done"
    pubSeq,                 \* number of broadcast / broadcastToIncident calls so far
    pubTopic,               \* the topic of the publish call just made (NoTopic: unscoped)
    pubFailed,              \* the ids whose write threw during the publish call just made
    broken,                 \* the response objects whose write has thrown
    \* ---- SnapshotBuffer ----------------------------------------------
    buffers,                \* Map<key, {snapshots, timer}>; timer: the handle is non-null
    pendingTimers,          \* per key: setTimeout calls neither fired nor cleared
    inflight,               \* batchCallback invocations awaited by a flush: [key, batch]
    handed,                 \* per key: the batches passed to batchCallback, in order
    settled,                \* flushes whose callback has settled, with how the flush ended
    nextSnap,               \* number of snapshots passed to add so far; their identities
    lastCall,               \* the call made last on the buffer and what it returned at once
    \* ---- SnapshotWebSocketManager, incident grouper, database ---------
    videos,                 \* the videos table: rows in insertion order
    incidents,              \* the incidents table; a row's id is its position
    sessions,               \* Map<WebSocket, VideoSession>
    wsState,                \* per connection: "open" | "closed"
    tasks,                  \* message / close handlers suspended at an await
    wsOut,                  \* per connection: the messages sent to the device
    broadcasts,             \* sseManager.broadcast calls made by the handlers
    owned,                  \* per connection: stream ids a handleInit stored a session for
    closedActive,           \* connections that had a session when 'close' fired
    msgs,                   \* per connection: messages received so far
    now,                    \* the wall clock, in hours
    recv,                   \* per connection: the types of the messages received, in order
    snapshots,              \* the snapshots table: rows in insertion order
    bufferAdds,             \* the snapshotBuffer.add(key, snapshot) calls made, in order
    effects,                \* what the handleSnapshot calls did after their insert, in order
    \* ---- ensureVideoWithIncident, one call at a time -------------------
    assignLog,              \* the ensureVideoWithIncident calls made and what they returned
    \* ---- the process and its signal handlers --------------------------
    sigHandlers,            \* per handler awaiting flushAll(): the invocations it awaits
    signalCount,            \* SIGTERM / SIGINT signals received so far
    exited,                 \* process.exit(0) has been called
    \* ---- rejected database calls of the message handlers ---------------
    failedOps,              \* the messages whose handler ended in the catch of ws.on('message')
    \* ---- the heartbeat intervals of setupClient ------------------------
    hbStopped,              \* responses whose interval cleared itself in its own callback
    \* ---- POST /snapshots ----------------------------------------------
    posts                   \* the requests handled: response, buffer key, broadcasts made

hubVars == <<clients, incidentSubscriptions, resState, resId, resTopic, resLog,
             fetchPc, pubSeq, pubTopic, pubFailed, broken>>

bufVars == <<buffers, pendingTimers, inflight, handed, settled, nextSnap, lastCall>>

ingVars == <<videos, incidents, sessions, wsState, tasks, wsOut, broadcasts,
             owned, closedActive, msgs, now, recv, snapshots, bufferAdds, effects>>

asgVars == <<assignLog>>

procVars == <<sigHandlers, signalCount, exited>>

errVars == <<failedOps>>

hbVars == <<hbStopped>>

postVars == <<posts>>

vars == <<hubVars, bufVars, ingVars, asgVars, procVars, errVars, hbVars, postVars>>

\* Each component is checked on its own: a step of one leaves the others alone.
HubFrame == UNCHANGED <<bufVars, ingVars, asgVars, procVars, errVars, hbVars, postVars>>
BufFrame == UNCHANGED <<hubVars, ingVars, asgVars, procVars, errVars, hbVars, postVars>>
IngFrame == UNCHANGED <<hubVars, bufVars, asgVars, procVars, errVars, hbVars, postVars>>
AsgFrame == UNCHANGED <<hubVars, bufVars, procVars, errVars, hbVars, postVars>>
ProcFrame == UNCHANGED <<hubVars, ingVars, asgVars, errVars, hbVars, postVars>>
ErrFrame == UNCHANGED <<hubVars, bufVars, asgVars, procVars, hbVars, postVars>>
HbFrame == UNCHANGED <<bufVars, ingVars, asgVars, procVars, errVars, postVars>>
PostFrame == UNCHANGED <<hubVars, bufVars, procVars, errVars, hbVars>>

(***************************************************************************)
(* Bounds of the model                                                     *)
(***************************************************************************)
MaxRes == 2     \* response objects (SSE connections) ever opened
MaxPub == 2     \* publish calls
MaxSnaps == 4   \* snapshots ever passed to SnapshotBuffer.add
MaxMsgs == 3    \* messages ever received on the ingestion WebSocket
MaxInits == 2   \* init messages among them
MaxTime == 1    \* hours the clock may advance
MaxSignals == 2 \* SIGTERM / SIGINT signals received
MaxCalls == 3   \* calls of ensureVideoWithIncident made one after another
MaxStart == 2   \* latest startedAt passed to a call, in hours
MaxFails == 1   \* calls during which a database call rejects
MaxDbFails == 1 \* message handlers whose awaited database call rejects
MaxBeats == 2   \* heartbeat frames written

ClientIds == {"c1", "c2"}
Topics    == {"T1", "T2"}
NoTopic   == "none"
Res       == 1..MaxRes

Restrict(f, S) == [x \in S |-> f[x]]

(***************************************************************************)
(* SSEManager                                                              *)
(***************************************************************************)
\* An SSE frame.  seq is the number of the publish call (0 for synthetic events).
Event(kind, topic, seq) == [kind |-> kind, topic |-> topic, seq |-> seq]

\* A write that puts the frame in front of what the stream already holds.
WritePrepend(log, e) == <<e>> \o log

\* client.res.write(message): the frame is appended to the response stream.
Write(log, e) == Append(log, e)

\* The hub's mutable state as one value, so the methods compose as functions.
HubState == [clients |-> clients, subs |-> incidentSubscriptions, logs |-> resLog]

removeClient(st, id) ==
    LET has   == id \in DOMAIN st.clients
        topic == IF has THEN st.clients[id].incidentId ELSE NoTopic
        subs1 == IF has /\ topic # NoTopic /\ topic \in DOMAIN st.subs
                 THEN LET s == st.subs[topic] \ {id}
                      IN  IF s = {}
                          THEN Restrict(st.subs, DOMAIN st.subs \ {topic})
                          ELSE [st.subs EXCEPT ![topic] = s]
                 ELSE st.subs
    IN  [clients |-> Restrict(st.clients, DOMAIN st.clients \ {id}),
         subs    |-> subs1,
         logs    |-> st.logs]

\* fails = TRUE: res.write throws, the catch block removes the client.
sendToClient(st, clientId, e, fails) ==
    IF clientId \notin DOMAIN st.clients THEN st
    ELSE IF fails THEN removeClient(st, clientId)
    ELSE [st EXCEPT !.logs[st.clients[clientId].res] = Write(@, e)]

\* The for-loops of broadcast / broadcastToIncident over the ids `ids`;
\* F is the set of ids whose write throws.
RECURSIVE sendAll(_, _, _, _)
sendAll(st, ids, e, F) ==
    IF ids = {} THEN st
    ELSE LET id == CHOOSE x \in ids : TRUE
         IN  sendAll(sendToClient(st, id, e, id \in F), ids \ {id}, e, F)

\* this.clients.set(id, {id, res, incidentId}); sendToClient(id, 'connected', ...)
setupClient(st, id, r, topic, fails) ==
    LET st1 == [st EXCEPT !.clients =
                   [x \in DOMAIN st.clients \cup {id} |->
                       IF x = id THEN [res |-> r, incidentId |-> topic]
                       ELSE st.clients[x]]]
    IN  sendToClient(st1, id, Event("connected", topic, 0), fails)

FreshRes == CHOOSE r \in Res : resState[r] = "unused" /\ \A q \in Res : q < r => resState[q] # "unused"

HubInit ==
    /\ clients = << >>
    /\ incidentSubscriptions = << >>
    /\ resState = [r \in Res |-> "unused"]
    /\ resId = [r \in Res |-> "c1"]
    /\ resTopic = [r \in Res |-> NoTopic]
    /\ resLog = [r \in Res |-> << >>]
    /\ fetchPc = [r \in Res |-> "none"]
    /\ pubSeq = 0
    /\ pubTopic = NoTopic
    /\ pubFailed = {}
    /\ broken = {}

\* Bookkeeping of the observation variables by a step that is not a publish.
NotPublish == pubTopic' = NoTopic /\ pubFailed' = {}

SetHub(st) ==
    /\ clients' = st.clients
    /\ incidentSubscriptions' = st.subs
    /\ resLog' = st.logs

\* GET /stream -> sseManager.addClient(clientId, res)
AddClient(id) ==
    /\ HubFrame
    /\ \E r \in Res : resState[r] = "unused"
    /\ \E fails \in BOOLEAN :
         LET r == FreshRes IN
         /\ SetHub(setupClient(HubState, id, r, NoTopic, fails))
         /\ broken' = IF fails THEN broken \cup {r} ELSE broken
         /\ resState' = [resState EXCEPT ![r] = "open"]
         /\ resId' = [resId EXCEPT ![r] = id]
         /\ resTopic' = [resTopic EXCEPT ![r] = NoTopic]
    /\ UNCHANGED <<fetchPc, pubSeq, pubTopic, pubFailed>>

\* GET /incidents/:id/stream -> sseManager.subscribeToIncident, up to the
\* await of fetchCurrentStateCallback inside sendCurrentState.
SubscribeToIncident(id, topic) ==
    /\ HubFrame
    /\ \E r \in Res : resState[r] = "unused"
    /\ \E fails \in BOOLEAN :
         LET r   == FreshRes
             st1 == setupClient(HubState, id, r, topic, fails)
             old == IF topic \in DOMAIN st1.subs THEN st1.subs[topic] ELSE {}
             st2 == [st1 EXCEPT !.subs =
                        [t \in DOMAIN st1.subs \cup {topic} |->
                            IF t = topic THEN old \cup {id} ELSE st1.subs[t]]]
         IN
         /\ SetHub(st2)
         /\ broken' = IF fails THEN broken \cup {r} ELSE broken
         /\ resState' = [resState EXCEPT ![r] = "open"]
         /\ resId' = [resId EXCEPT ![r] = id]
         /\ resTopic' = [resTopic EXCEPT ![r] = topic]
         /\ fetchPc' = [fetchPc EXCEPT ![r] = "pending"]
    /\ NotPublish
    /\ UNCHANGED pubSeq

\* The state provider answers: a state, null, or a rejection.
FetchOutcomes == {"state", "null", "throw"}

\* sendCurrentState after the await: the event goes to the client registered
\* under the captured clientId.
SendCurrentState(r) ==
    /\ HubFrame
    /\ fetchPc[r] = "pending"
    /\ \E out \in FetchOutcomes, fails \in BOOLEAN :
         /\ SetHub(IF out = "state"
                   THEN sendToClient(HubState, resId[r],
                                     Event("currentState", resTopic[r], 0), fails)
                   ELSE HubState)
         /\ broken' = IF out = "state" /\ fails /\ resId[r] \in DOMAIN clients
                       THEN broken \cup {clients[resId[r]].res}
                       ELSE broken
    /\ fetchPc' = [fetchPc EXCEPT ![r] = "done"]
    /\ NotPublish
    /\ UNCHANGED <<resState, resId, resTopic, pubSeq>>

\* sseManager.broadcast(event, data)
Broadcast ==
    /\ HubFrame
    /\ pubSeq < MaxPub
    /\ \E F \in SUBSET (DOMAIN clients) :
         LET e == Event("pub", NoTopic, pubSeq + 1) IN
         /\ SetHub(sendAll(HubState, DOMAIN clients, e, F))
         /\ pubFailed' = F
         /\ broken' = broken \cup {clients[id].res : id \in F}
    /\ pubSeq' = pubSeq + 1
    /\ pubTopic' = NoTopic
    /\ UNCHANGED <<resState, resId, resTopic, fetchPc>>

\* sseManager.broadcastToIncident(incidentId, event, data)
BroadcastToIncident(topic) ==
    /\ HubFrame
    /\ pubSeq < MaxPub
    /\ LET subscribers == IF topic \in DOMAIN incidentSubscriptions
                          THEN incidentSubscriptions[topic] ELSE {}
       IN  \E F \in SUBSET (subscribers \cap DOMAIN clients) :
             LET e == Event("pub", topic, pubSeq + 1) IN
             /\ SetHub(sendAll(HubState, subscribers, e, F))
             /\ pubFailed' = F
             /\ broken' = broken \cup {clients[id].res : id \in F}
    /\ pubSeq' = pubSeq + 1
    /\ pubTopic' = topic
    /\ UNCHANGED <<resState, resId, resTopic, fetchPc>>

\* res.on('close'): clearInterval(heartbeat); this.removeClient(id)
Close(r) ==
    /\ HubFrame
    /\ resState[r] = "open"
    /\ resState' = [resState EXCEPT ![r] = "closed"]
    /\ SetHub(removeClient(HubState, resId[r]))
    /\ NotPublish
    /\ UNCHANGED <<resId, resTopic, fetchPc, pubSeq, broken>>

HubNext ==
    \/ \E id \in ClientIds : AddClient(id)
    \/ \E id \in ClientIds, t \in Topics : SubscribeToIncident(id, t)
    \/ \E r \in Res : SendCurrentState(r)
    \/ Broadcast
    \/ \E t \in Topics : BroadcastToIncident(t)
    \/ \E r \in Res : Close(r)

(***************************************************************************)
(* SnapshotBuffer                                                          *)
(***************************************************************************)
Keys == {"k1", "k2"}

\* Constructor parameters (SNAPSHOT_BATCH_MIN_SIZE / SNAPSHOT_BATCH_MAX_SIZE),
\* scaled down; the policy only compares buffer lengths with them.
minBatchSize == 2
maxBatchSize == 3

Elems(seq) == {seq[i] : i \in 1..Len(seq)}

BufState == [buffers |-> buffers, pending |-> pendingTimers,
             inflight |-> inflight, handed |-> handed]

\* A flush that leaves the handed-over snapshots in the buffer.
KeptSnapshots(snaps) == snaps

\* buffer.snapshots = []
ClearedSnapshots(snaps) == << >>

\* A flush that hands the batch over without clearTimeout(buffer.timer).
flushKeepTimer(st, k, force) ==
    IF k \notin DOMAIN st.buffers THEN st
    ELSE IF Len(st.buffers[k].snapshots) = 0 THEN st
    ELSE IF ~force /\ Len(st.buffers[k].snapshots) < minBatchSize THEN st
    ELSE LET b     == st.buffers[k]
             batch == b.snapshots
         IN  [buffers  |-> [st.buffers EXCEPT ![k] =
                              [snapshots |-> ClearedSnapshots(b.snapshots),
                               timer |-> FALSE]],
              pending  |-> st.pending,
              inflight |-> st.inflight \cup {[key |-> k, batch |-> batch]},
              handed   |-> [st.handed EXCEPT ![k] = Append(@, batch)]]

\* A flush without the minimum-size gate.
flushUngated(st, k, force) ==
    IF k \notin DOMAIN st.buffers THEN st
    ELSE IF Len(st.buffers[k].snapshots) = 0 THEN st
    ELSE LET b     == st.buffers[k]
             batch == b.snapshots
         IN  [buffers  |-> [st.buffers EXCEPT ![k] =
                              [snapshots |-> ClearedSnapshots(b.snapshots),
                               timer |-> FALSE]],
              pending  |-> [st.pending EXCEPT ![k] = IF b.timer THEN @ - 1 ELSE @],
              inflight |-> st.inflight \cup {[key |-> k, batch |-> batch]},
              handed   |-> [st.handed EXCEPT ![k] = Append(@, batch)]]

\* A flush that hands the buffer over without its newest snapshot.
flushAllButNewest(st, k, force) ==
    IF k \notin DOMAIN st.buffers THEN st
    ELSE IF Len(st.buffers[k].snapshots) = 0 THEN st
    ELSE IF ~force /\ Len(st.buffers[k].snapshots) < minBatchSize THEN st
    ELSE LET b     == st.buffers[k]
             batch == SubSeq(b.snapshots, 1, Len(b.snapshots) - 1)
         IN  [buffers  |-> [st.buffers EXCEPT ![k] =
                              [snapshots |-> ClearedSnapshots(b.snapshots),
                               timer |-> FALSE]],
              pending  |-> [st.pending EXCEPT ![k] = IF b.timer THEN @ - 1 ELSE @],
              inflight |-> st.inflight \cup {[key |-> k, batch |-> batch]},
              handed   |-> [st.handed EXCEPT ![k] = Append(@, batch)]]

\* The synchronous part of flush(incidentId, force): up to and including the
\* call of batchCallback(incidentId, snapshots).
flush(st, k, force) ==
    IF k \notin DOMAIN st.buffers THEN st
    ELSE IF Len(st.buffers[k].snapshots) = 0 THEN st
    ELSE IF ~force /\ Len(st.buffers[k].snapshots) < minBatchSize THEN st
    ELSE LET b     == st.buffers[k]
             batch == b.snapshots
         IN  [buffers  |-> [st.buffers EXCEPT ![k] =
                              [snapshots |-> ClearedSnapshots(b.snapshots),
                               timer |-> FALSE]],
              pending  |-> [st.pending EXCEPT ![k] = IF b.timer THEN @ - 1 ELSE @],
              inflight |-> st.inflight \cup {[key |-> k, batch |-> batch]},
              handed   |-> [st.handed EXCEPT ![k] = Append(@, batch)]]

\* What the call flush(incidentId, force) has done when it gives up control:
\* returned [] from one of its early exits, or handed the batch over and
\* suspended at the await of the callback.
flushResult(st, k, force) == IF flush(st, k, force) = st THEN "[]" ELSE "awaiting"

\* A flushAll that calls flush(id) without force.
RECURSIVE flushEachGated(_, _)
flushEachGated(st, ks) ==
    IF ks = {} THEN st
    ELSE LET k == CHOOSE x \in ks : TRUE
         IN  flushEachGated(flush(st, k, FALSE), ks \ {k})

RECURSIVE flushEach(_, _)
flushEach(st, ks) ==
    IF ks = {} THEN st
    ELSE LET k == CHOOSE x \in ks : TRUE
         IN  flushEach(flush(st, k, TRUE), ks \ {k})

\* A catch block that puts the failed batch back in front of the buffer.
requeueOnError(snaps, batch, outcome) ==
    IF outcome # "ok" THEN batch \o snaps ELSE snaps

\* try { await this.batchCallback(...) } catch (error) { console.error(...) }:
\* what the buffer of the key holds after the callback settled.
afterCallback(snaps, batch, outcome) == snaps

\* A flush without the try/catch around the callback.
flushEndsRethrow(outcome) == IF outcome = "ok" THEN "resolved" ELSE "rejected"

\* How flush itself ends for a callback outcome: the error is caught, so
\* `return snapshots` is reached either way.
flushEnds(outcome) == "resolved"

Call(op, k, force, result) == [op |-> op, key |-> k, force |-> force, result |-> result]

BufInit ==
    /\ buffers = << >>
    /\ pendingTimers = [k \in Keys |-> 0]
    /\ inflight = {}
    /\ handed = [k \in Keys |-> << >>]
    /\ settled = {}
    /\ nextSnap = 0
    /\ lastCall = Call("none", "none", FALSE, "void")

SetBuf(st) ==
    /\ buffers' = st.buffers
    /\ pendingTimers' = st.pending
    /\ inflight' = st.inflight
    /\ handed' = st.handed

\* An add that calls setTimeout on every call, whether or not a timer is
\* already running.
AddAlwaysArms(k) ==
    /\ BufFrame
    /\ nextSnap < MaxSnaps
    /\ nextSnap' = nextSnap + 1
    /\ LET old  == IF k \in DOMAIN buffers THEN buffers[k]
                   ELSE [snapshots |-> << >>, timer |-> FALSE]
           b1   == [snapshots |-> Append(old.snapshots, nextSnap + 1), timer |-> TRUE]
           st1  == [BufState EXCEPT
                       !.buffers = [x \in DOMAIN buffers \cup {k} |->
                                       IF x = k THEN b1 ELSE buffers[x]],
                       !.pending[k] = @ + 1]
       IN  SetBuf(IF Len(b1.snapshots) >= maxBatchSize THEN flush(st1, k, FALSE) ELSE st1)
    /\ lastCall' = Call("add", k, FALSE, "void")
    /\ UNCHANGED settled

\* An add without the flush at maxBatchSize.
AddNoMaxFlush(k) ==
    /\ BufFrame
    /\ nextSnap < MaxSnaps
    /\ nextSnap' = nextSnap + 1
    /\ LET old  == IF k \in DOMAIN buffers THEN buffers[k]
                   ELSE [snapshots |-> << >>, timer |-> FALSE]
           b1   == [snapshots |-> Append(old.snapshots, nextSnap + 1), timer |-> TRUE]
           st1  == [BufState EXCEPT
                       !.buffers = [x \in DOMAIN buffers \cup {k} |->
                                       IF x = k THEN b1 ELSE buffers[x]],
                       !.pending[k] = IF old.timer THEN @ ELSE @ + 1]
       IN  SetBuf(st1)
    /\ lastCall' = Call("add", k, FALSE, "void")
    /\ UNCHANGED settled

\* An add that puts the snapshot in front of the buffer (unshift).
AddInFront(k) ==
    /\ BufFrame
    /\ nextSnap < MaxSnaps
    /\ nextSnap' = nextSnap + 1
    /\ LET old  == IF k \in DOMAIN buffers THEN buffers[k]
                   ELSE [snapshots |-> << >>, timer |-> FALSE]
           b1   == [snapshots |-> <<nextSnap + 1>> \o old.snapshots, timer |-> TRUE]
           st1  == [BufState EXCEPT
                       !.buffers = [x \in DOMAIN buffers \cup {k} |->
                                       IF x = k THEN b1 ELSE buffers[x]],
                       !.pending[k] = IF old.timer THEN @ ELSE @ + 1]
       IN  SetBuf(IF Len(b1.snapshots) >= maxBatchSize THEN flush(st1, k, FALSE) ELSE st1)
    /\ lastCall' = Call("add", k, FALSE, "void")
    /\ UNCHANGED settled

\* add(incidentId, snapshot)
Add(k) ==
    /\ BufFrame
    /\ nextSnap < MaxSnaps
    /\ nextSnap' = nextSnap + 1
    /\ LET old  == IF k \in DOMAIN buffers THEN buffers[k]
                   ELSE [snapshots |-> << >>, timer |-> FALSE]
           b1   == [snapshots |-> Append(old.snapshots, nextSnap + 1), timer |-> TRUE]
           st1  == [BufState EXCEPT
                       !.buffers = [x \in DOMAIN buffers \cup {k} |->
                                       IF x = k THEN b1 ELSE buffers[x]],
                       !.pending[k] = IF old.timer THEN @ ELSE @ + 1]
       IN  SetBuf(IF Len(b1.snapshots) >= maxBatchSize THEN flush(st1, k, FALSE) ELSE st1)
    /\ lastCall' = Call("add", k, FALSE, "void")
    /\ UNCHANGED settled

\* A timerFlush that lets the timer lapse when the buffer is below the
\* minimum: a one-shot deadline.
TimerFlushOneShot(k) ==
    /\ BufFrame
    /\ pendingTimers[k] > 0
    /\ LET st0 == [BufState EXCEPT !.pending[k] = @ - 1]
       IN  IF k \notin DOMAIN buffers THEN SetBuf(st0)
           ELSE LET st1 == [st0 EXCEPT !.buffers[k].timer = FALSE]
                IN  IF Len(buffers[k].snapshots) >= minBatchSize
                    THEN SetBuf(flush(st1, k, FALSE))
                    ELSE SetBuf(st1)
    /\ lastCall' = Call("timerFlush", k, FALSE, "void")
    /\ UNCHANGED <<settled, nextSnap>>

\* A timerFlush that compares with `>`: a buffer of exactly the minimum
\* size is not processed.
TimerFlushStrict(k) ==
    /\ BufFrame
    /\ pendingTimers[k] > 0
    /\ LET st0 == [BufState EXCEPT !.pending[k] = @ - 1]
       IN  IF k \notin DOMAIN buffers THEN SetBuf(st0)
           ELSE LET st1 == [st0 EXCEPT !.buffers[k].timer = FALSE]
                IN  IF Len(buffers[k].snapshots) > minBatchSize
                    THEN SetBuf(flush(st1, k, FALSE))
                    ELSE SetBuf([st1 EXCEPT !.buffers[k].timer = TRUE,
                                            !.pending[k] = @ + 1])
    /\ lastCall' = Call("timerFlush", k, FALSE, "void")
    /\ UNCHANGED <<settled, nextSnap>>

\* The setTimeout callback: timerFlush(incidentId), up to its await.
TimerFlush(k) ==
    /\ BufFrame
    /\ pendingTimers[k] > 0
    /\ LET st0 == [BufState EXCEPT !.pending[k] = @ - 1]
       IN  IF k \notin DOMAIN buffers THEN SetBuf(st0)
           ELSE LET st1 == [st0 EXCEPT !.buffers[k].timer = FALSE]
                IN  IF Len(buffers[k].snapshots) >= minBatchSize
                    THEN SetBuf(flush(st1, k, FALSE))
                    ELSE SetBuf([st1 EXCEPT !.buffers[k].timer = TRUE,
                                            !.pending[k] = @ + 1])
    /\ lastCall' = Call("timerFlush", k, FALSE, "void")
    /\ UNCHANGED <<settled, nextSnap>>

\* A call of the public flush(incidentId, force), up to its return or await.
Flush(k, force) ==
    /\ BufFrame
    /\ SetBuf(flush(BufState, k, force))
    /\ lastCall' = Call("flush", k, force, flushResult(BufState, k, force))
    /\ UNCHANGED <<settled, nextSnap>>

\* flushAll(): every flush(id, true) runs its synchronous part in the map call.
FlushAll ==
    /\ BufFrame
    /\ SetBuf(flushEach(BufState, DOMAIN buffers))
    /\ lastCall' = Call("flushAll", "all", TRUE, "void")
    /\ UNCHANGED <<settled, nextSnap>>

\* What flush distinguishes at its await: the callback resolves or rejects.
CallbackOutcomes == {"ok", "throw"}

\* processBatch of services/timelineAgent.ts: the analysis call is made under
\* an enforced timeout, and a timeout is a failure of the call.
processBatchOutcomes == CallbackOutcomes \cup {"timeout"}

\* The awaited batchCallback settles and flush continues after the await.
CallbackSettles(f) ==
    /\ BufFrame
    /\ f \in inflight
    /\ \E outcome \in processBatchOutcomes :
         /\ settled' = settled \cup {[key |-> f.key, batch |-> f.batch,
                                      outcome |-> outcome, flush |-> flushEnds(outcome)]}
         /\ buffers' = [buffers EXCEPT ![f.key].snapshots =
                           afterCallback(@, f.batch, outcome)]
    /\ inflight' = inflight \ {f}
    /\ lastCall' = Call("settle", f.key, FALSE, "void")
    /\ UNCHANGED <<pendingTimers, handed, nextSnap>>

BufNext ==
    \/ \E k \in Keys : Add(k)
    \/ \E k \in Keys : TimerFlush(k)
    \/ \E k \in Keys, force \in BOOLEAN : Flush(k, force)
    \/ FlushAll
    \/ \E f \in inflight : CallbackSettles(f)

(***************************************************************************)
(* Incident grouper and database (incidentGrouper.ts, utils/geo.ts)        *)
(***************************************************************************)
WS       == {"w1", "w2"}
VideoIds == {"v1", "v2"}

\* Device positions: metres north of a reference point, all on one meridian.
Lats == {0, 100, 201}

INCIDENT_RADIUS_METERS == 100
INCIDENT_TIME_WINDOW_HOURS == 1

\* On one meridian dLng = 0 and the haversine formula reduces to
\* EARTH_RADIUS * |dLat in radians|, the distance in metres along it.
haversineDistance(lat1, lat2) == IF lat1 >= lat2 THEN lat1 - lat2 ELSE lat2 - lat1

isWithinRadius(lat1, lat2, radiusMeters) == haversineDistance(lat1, lat2) <= radiusMeters

NoIncident == 0
NoTime == -1

\* db.select().from(videos).where(eq(videos.id, videoId)): positions of the rows.
videoRows(rows, id) == {i \in 1..Len(rows) : rows[i].id = id}

\* An insert into a table without the primary key on videos.id.
insertVideoNoKey(rows, row) == [ok |-> TRUE, rows |-> Append(rows, row)]

\* db.insert(videos).values(...): videos.id is the primary key, a second
\* row with the id is refused and the insert rejects.
insertVideo(rows, row) ==
    IF videoRows(rows, row.id) # {}
    THEN [ok |-> FALSE, rows |-> rows]
    ELSE [ok |-> TRUE, rows |-> Append(rows, row)]

\* A findMatchingIncident whose query has no time window.
matchingIncidentsAnyTime(rows, lat, startedAt) ==
    {i \in 1..Len(rows) :
        /\ rows[i].status = "active"
        /\ isWithinRadius(lat, rows[i].lat, INCIDENT_RADIUS_METERS)}

\* findMatchingIncident: the active incidents in the time window that are
\* within the radius; the query has no ORDER BY, the loop returns the first.
matchingIncidents(rows, lat, startedAt) ==
    {i \in 1..Len(rows) :
        /\ rows[i].status = "active"
        /\ rows[i].startedAt >= startedAt - INCIDENT_TIME_WINDOW_HOURS
        /\ isWithinRadius(lat, rows[i].lat, INCIDENT_RADIUS_METERS)}

\* db.update(videos).set({incidentId}).where(eq(videos.id, videoId))
setVideoIncident(rows, id, inc) ==
    [i \in 1..Len(rows) |->
        IF rows[i].id = id THEN [rows[i] EXCEPT !.incidentId = inc] ELSE rows[i]]

\* updateVideoStatus(videoId, 'ended')
updateVideoStatus(rows, id, status, t) ==
    [i \in 1..Len(rows) |->
        IF rows[i].id = id
        THEN [rows[i] EXCEPT !.status = status,
                             !.endedAt = IF status \in {"ended", "recorded"} THEN t ELSE @]
        ELSE rows[i]]

(***************************************************************************)
(* SnapshotWebSocketManager (snapshotWebSocket.ts)                         *)
(***************************************************************************)
Task(n, w, kind, pc, v, lat, t, isNew, inc) ==
    [n |-> n, ws |-> w, kind |-> kind, pc |-> pc, videoId |-> v, lat |-> lat,
     startedAt |-> t, isNew |-> isNew, incidentId |-> inc]

Send(w, msg) == wsOut' = [wsOut EXCEPT ![w] = Append(@, msg)]

\* sseManager.broadcast(event, {videoId, ...}) called by a handler of connection w;
\* broadcasts counts the calls per event, stream and connection.
Emit(event, v, w) ==
    broadcasts' = [broadcasts EXCEPT ![<<event, v, w>>] = @ + 1]

IngestEvents == {"newVideo", "videoStatusChanged", "snapshotReceived"}

RECURSIVE SumOver(_, _)
SumOver(f, S) ==
    IF S = {} THEN 0
    ELSE LET x == CHOOSE y \in S : TRUE IN f[x] + SumOver(f, S \ {x})

\* Messages received so far on all connections.
msgCount == SumOver(msgs, WS)

\* init messages received so far on all connections.
initCount ==
    SumOver([w \in WS |-> Cardinality({i \in 1..Len(recv[w]) : recv[w][i] = "init"})], WS)

\* Connections are interchangeable, and so are stream ids: the messages are
\* enumerated up to renaming, the connection that receives the first
\* message being w1 and the first stream id announced by an init being v1.
ConnectionInOrder(w) == w = "w1" \/ msgs["w1"] > 0

VideoIdInOrder(v) ==
    v = "v1" \/ videoRows(videos, "v1") # {} \/ \E t \in tasks : t.videoId = "v1"

IngInit ==
    /\ videos = << >>
    /\ incidents = << >>
    /\ sessions = << >>
    /\ wsState = [w \in WS |-> "open"]
    /\ tasks = {}
    /\ wsOut = [w \in WS |-> << >>]
    /\ broadcasts = [k \in IngestEvents \X VideoIds \X WS |-> 0]
    /\ owned = [w \in WS |-> {}]
    /\ closedActive = {}
    /\ msgs = [w \in WS |-> 0]
    /\ now = 0
    /\ recv = [w \in WS |-> << >>]
    /\ snapshots = << >>
    /\ bufferAdds = << >>
    /\ effects = << >>

\* The clock advances.
Tick ==
    /\ IngFrame
    /\ UNCHANGED <<recv, snapshots, bufferAdds, effects>>
    /\ now < MaxTime
    /\ now' = now + 1
    /\ UNCHANGED <<videos, incidents, sessions, wsState, tasks, wsOut, broadcasts,
                   owned, closedActive, msgs>>

\* An init message arrives: handleInit up to the await of
\* ensureVideoWithIncident (its first query is then outstanding).
RecvInit(w, v, lat) ==
    /\ IngFrame
    /\ recv' = [recv EXCEPT ![w] = Append(@, "init")]
    /\ UNCHANGED <<snapshots, bufferAdds, effects>>
    /\ wsState[w] = "open"
    /\ msgCount < MaxMsgs /\ initCount < MaxInits
    /\ ConnectionInOrder(w) /\ VideoIdInOrder(v)
    /\ msgs' = [msgs EXCEPT ![w] = @ + 1]
    /\ IF w \in DOMAIN sessions
       THEN /\ Send(w, "error: Session already initialized")
            /\ UNCHANGED tasks
       ELSE /\ tasks' = tasks \cup
                   {Task(msgs[w] + 1, w, "init", "selectVideo", v, lat, now, FALSE, NoIncident)}
            /\ UNCHANGED wsOut
    /\ UNCHANGED <<videos, incidents, sessions, wsState, broadcasts, owned,
                   closedActive, now>>

\* The tail of handleInit once ensureVideoWithIncident has returned.
FinishInit(t, inc) ==
    /\ sessions' = [x \in DOMAIN sessions \cup {t.ws} |->
                       IF x = t.ws
                       THEN [videoId |-> t.videoId, incidentId |-> inc, lat |-> t.lat]
                       ELSE sessions[x]]
    /\ owned' = [owned EXCEPT ![t.ws] = @ \cup {t.videoId}]
    /\ IF t.isNew THEN Emit("newVideo", t.videoId, t.ws) ELSE UNCHANGED broadcasts
    /\ IF wsState[t.ws] = "open" THEN Send(t.ws, "initialized") ELSE UNCHANGED wsOut
    /\ tasks' = tasks \ {t}

\* ensureVideoWithIncident: the select of the video row returns.
SelectVideo(t) ==
    /\ IngFrame
    /\ UNCHANGED <<recv, snapshots, bufferAdds, effects>>
    /\ t \in tasks /\ t.pc = "selectVideo"
    /\ LET found == videoRows(videos, t.videoId) IN
       IF found = {}
       THEN /\ tasks' = (tasks \ {t}) \cup {[t EXCEPT !.pc = "insertVideo"]}
            /\ UNCHANGED <<sessions, owned, broadcasts, wsOut>>
       ELSE LET existing == videos[CHOOSE i \in found : \A j \in found : i <= j] IN
            IF existing.incidentId # NoIncident
            THEN FinishInit(t, existing.incidentId)
            ELSE /\ tasks' = (tasks \ {t}) \cup
                        {[t EXCEPT !.pc = "findIncident", !.lat = existing.lat,
                                   !.startedAt = existing.startedAt]}
                 /\ UNCHANGED <<sessions, owned, broadcasts, wsOut>>
    /\ UNCHANGED <<videos, incidents, wsState, closedActive, msgs, now>>

\* ensureVideoWithIncident: the insert of the video row returns or rejects;
\* a rejection propagates to the catch of ws.on('message').
InsertVideo(t) ==
    /\ IngFrame
    /\ UNCHANGED <<recv, snapshots, bufferAdds, effects>>
    /\ t \in tasks /\ t.pc = "insertVideo"
    /\ LET res == insertVideo(videos,
                      [id |-> t.videoId, incidentId |-> NoIncident, status |-> "live",
                       lat |-> t.lat, startedAt |-> t.startedAt, endedAt |-> NoTime])
       IN  /\ videos' = res.rows
           /\ IF res.ok
              THEN /\ tasks' = (tasks \ {t}) \cup
                          {[t EXCEPT !.pc = "findIncident", !.isNew = TRUE]}
                   /\ UNCHANGED wsOut
              ELSE /\ tasks' = tasks \ {t}
                   /\ IF wsState[t.ws] = "open"
                      THEN Send(t.ws, "error: Invalid message format")
                      ELSE UNCHANGED wsOut
    /\ UNCHANGED <<incidents, sessions, wsState, broadcasts, owned, closedActive,
                   msgs, now>>

\* assignVideoToIncident: findMatchingIncident returns.
FindIncident(t) ==
    /\ IngFrame
    /\ UNCHANGED <<recv, snapshots, bufferAdds, effects>>
    /\ t \in tasks /\ t.pc = "findIncident"
    /\ LET m == matchingIncidents(incidents, t.lat, t.startedAt) IN
       IF m = {}
       THEN tasks' = (tasks \ {t}) \cup {[t EXCEPT !.pc = "createIncident"]}
       ELSE \E i \in m :
              tasks' = (tasks \ {t}) \cup
                          {[t EXCEPT !.pc = "updateVideo", !.incidentId = i]}
    /\ UNCHANGED <<videos, incidents, sessions, wsState, wsOut, broadcasts, owned,
                   closedActive, msgs, now>>

\* assignVideoToIncident: createIncident returns.
CreateIncident(t) ==
    /\ IngFrame
    /\ UNCHANGED <<recv, snapshots, bufferAdds, effects>>
    /\ t \in tasks /\ t.pc = "createIncident"
    /\ incidents' = Append(incidents,
                           [lat |-> t.lat, startedAt |-> t.startedAt, status |-> "active"])
    /\ tasks' = (tasks \ {t}) \cup
                    {[t EXCEPT !.pc = "updateVideo", !.incidentId = Len(incidents) + 1]}
    /\ UNCHANGED <<videos, sessions, wsState, wsOut, broadcasts, owned, closedActive,
                   msgs, now>>

\* assignVideoToIncident: the update of videos.incidentId returns; the call
\* chain returns into handleInit, which runs to its end.
UpdateVideo(t) ==
    /\ IngFrame
    /\ UNCHANGED <<recv, snapshots, bufferAdds, effects>>
    /\ t \in tasks /\ t.pc = "updateVideo"
    /\ videos' = setVideoIncident(videos, t.videoId, t.incidentId)
    /\ FinishInit(t, t.incidentId)
    /\ UNCHANGED <<incidents, wsState, closedActive, msgs, now>>

\* A videoEnded message arrives: handleVideoEnded up to its await.
RecvVideoEnded(w) ==
    /\ IngFrame
    /\ recv' = [recv EXCEPT ![w] = Append(@, "videoEnded")]
    /\ UNCHANGED <<snapshots, bufferAdds, effects>>
    /\ wsState[w] = "open"
    /\ msgCount < MaxMsgs /\ ConnectionInOrder(w)
    /\ msgs' = [msgs EXCEPT ![w] = @ + 1]
    /\ IF w \in DOMAIN sessions
       THEN /\ tasks' = tasks \cup
                   {Task(msgs[w] + 1, w, "videoEnded", "updateStatus", sessions[w].videoId,
                         sessions[w].lat, now, FALSE, sessions[w].incidentId)}
            /\ UNCHANGED wsOut
       ELSE /\ Send(w, "error: Session not initialized. Send init first.")
            /\ UNCHANGED tasks
    /\ UNCHANGED <<videos, incidents, sessions, wsState, broadcasts, owned,
                   closedActive, now>>

\* A handleSnapshot that drops a message of a connection without a session
\* and tells the sender nothing.
RecvSnapshotSilent(w, scenario) ==
    /\ IngFrame
    /\ wsState[w] = "open"
    /\ msgCount < MaxMsgs /\ ConnectionInOrder(w)
    /\ msgs' = [msgs EXCEPT ![w] = @ + 1]
    /\ recv' = [recv EXCEPT ![w] = Append(@, "snapshot")]
    /\ IF w \notin DOMAIN sessions \/ ~scenario
       THEN UNCHANGED <<tasks, wsOut>>
       ELSE /\ tasks' = tasks \cup
                   {Task(msgs[w] + 1, w, "snapshot", "insertSnapshot", sessions[w].videoId,
                         sessions[w].lat, now, FALSE, sessions[w].incidentId)}
            /\ UNCHANGED wsOut
    /\ UNCHANGED <<videos, incidents, sessions, wsState, broadcasts, owned,
                   closedActive, now, snapshots, bufferAdds, effects>>

\* A snapshot message arrives: handleSnapshot up to the await of the insert.
RecvSnapshot(w, scenario) ==
    /\ IngFrame
    /\ wsState[w] = "open"
    /\ msgCount < MaxMsgs /\ ConnectionInOrder(w)
    /\ msgs' = [msgs EXCEPT ![w] = @ + 1]
    /\ recv' = [recv EXCEPT ![w] = Append(@, "snapshot")]
    /\ IF w \notin DOMAIN sessions
       THEN /\ Send(w, "error: Session not initialized. Send init first.")
            /\ UNCHANGED tasks
       ELSE IF ~scenario
       THEN /\ Send(w, "error: Missing required field: scenario")
            /\ UNCHANGED tasks
       ELSE /\ tasks' = tasks \cup
                   {Task(msgs[w] + 1, w, "snapshot", "insertSnapshot", sessions[w].videoId,
                         sessions[w].lat, now, FALSE, sessions[w].incidentId)}
            /\ UNCHANGED wsOut
    /\ UNCHANGED <<videos, incidents, sessions, wsState, broadcasts, owned,
                   closedActive, now, snapshots, bufferAdds, effects>>

\* One thing done by the handleSnapshot call of task t for the snapshot row id.
Effect(kind, t, id) ==
    [kind |-> kind, ws |-> t.ws, n |-> t.n, key |-> t.videoId, snapshot |-> id]

\* A handleSnapshot that acknowledges before it persists, buffers and broadcasts.
InsertSnapshotAckFirst(t) ==
    /\ IngFrame
    /\ t \in tasks /\ t.pc = "insertSnapshot"
    /\ snapshots' = Append(snapshots, [videoId |-> t.videoId, ws |-> t.ws, n |-> t.n])
    /\ bufferAdds' = Append(bufferAdds, [key |-> t.videoId, snapshot |-> Len(snapshots) + 1])
    /\ Emit("snapshotReceived", t.videoId, t.ws)
    /\ IF wsState[t.ws] = "open" THEN Send(t.ws, "snapshot_ack") ELSE UNCHANGED wsOut
    /\ effects' = effects
                    \o (IF wsState[t.ws] = "open"
                        THEN << Effect("ack", t, Len(snapshots) + 1) >> ELSE << >>)
                    \o << Effect("persist", t, Len(snapshots) + 1),
                          Effect("buffer", t, Len(snapshots) + 1),
                          Effect("broadcast", t, Len(snapshots) + 1) >>
    /\ tasks' = tasks \ {t}
    /\ UNCHANGED <<videos, incidents, sessions, wsState, owned, closedActive, msgs,
                   now, recv>>

\* db.insert(snapshots) returns; handleSnapshot runs to its end:
\* snapshotBuffer.add, sseManager.broadcast, ws.send of the ack (which
\* reaches no one once the connection has closed).
InsertSnapshot(t) ==
    /\ IngFrame
    /\ t \in tasks /\ t.pc = "insertSnapshot"
    /\ snapshots' = Append(snapshots, [videoId |-> t.videoId, ws |-> t.ws, n |-> t.n])
    /\ bufferAdds' = Append(bufferAdds, [key |-> t.videoId, snapshot |-> Len(snapshots) + 1])
    /\ Emit("snapshotReceived", t.videoId, t.ws)
    /\ IF wsState[t.ws] = "open" THEN Send(t.ws, "snapshot_ack") ELSE UNCHANGED wsOut
    /\ effects' = effects
                    \o << Effect("persist", t, Len(snapshots) + 1),
                          Effect("buffer", t, Len(snapshots) + 1),
                          Effect("broadcast", t, Len(snapshots) + 1) >>
                    \o (IF wsState[t.ws] = "open"
                        THEN << Effect("ack", t, Len(snapshots) + 1) >> ELSE << >>)
    /\ tasks' = tasks \ {t}
    /\ UNCHANGED <<videos, incidents, sessions, wsState, owned, closedActive, msgs,
                   now, recv>>

\* A handleDisconnect that empties the session table when the closing
\* connection has no session.
WsCloseClear(w) ==
    /\ IngFrame
    /\ UNCHANGED <<recv, snapshots, bufferAdds, effects>>
    /\ wsState[w] = "open"
    /\ wsState' = [wsState EXCEPT ![w] = "closed"]
    /\ IF w \in DOMAIN sessions
       THEN /\ tasks' = tasks \cup
                   {Task(0, w, "disconnect", "updateStatus", sessions[w].videoId,
                         sessions[w].lat, now, FALSE, sessions[w].incidentId)}
            /\ closedActive' = closedActive \cup {w}
            /\ UNCHANGED sessions
       ELSE /\ sessions' = << >>
            /\ UNCHANGED <<tasks, closedActive>>
    /\ UNCHANGED <<videos, incidents, wsOut, broadcasts, owned, msgs, now>>

\* The connection closes: handleDisconnect up to its await.
WsClose(w) ==
    /\ IngFrame
    /\ UNCHANGED <<recv, snapshots, bufferAdds, effects>>
    /\ wsState[w] = "open"
    /\ wsState' = [wsState EXCEPT ![w] = "closed"]
    /\ IF w \in DOMAIN sessions
       THEN /\ tasks' = tasks \cup
                   {Task(0, w, "disconnect", "updateStatus", sessions[w].videoId,
                         sessions[w].lat, now, FALSE, sessions[w].incidentId)}
            /\ closedActive' = closedActive \cup {w}
       ELSE UNCHANGED <<tasks, closedActive>>
    /\ UNCHANGED <<videos, incidents, sessions, wsOut, broadcasts, owned, msgs, now>>

\* updateVideoStatus(session.videoId, 'ended') returns; handleVideoEnded or
\* handleDisconnect runs to its end.
UpdateStatus(t) ==
    /\ IngFrame
    /\ UNCHANGED <<recv, snapshots, bufferAdds, effects>>
    /\ t \in tasks /\ t.pc = "updateStatus"
    /\ videos' = updateVideoStatus(videos, t.videoId, "ended", now)
    /\ Emit("videoStatusChanged", t.videoId, t.ws)
    /\ tasks' = tasks \ {t}
    /\ IF t.kind = "disconnect"
       THEN /\ sessions' = Restrict(sessions, DOMAIN sessions \ {t.ws})
            /\ UNCHANGED wsOut
       ELSE /\ UNCHANGED sessions
            /\ IF wsState[t.ws] = "open" THEN Send(t.ws, "videoEnded_ack")
               ELSE UNCHANGED wsOut
    /\ UNCHANGED <<incidents, wsState, owned, closedActive, msgs, now>>

TaskPcs == {"selectVideo", "insertVideo", "findIncident", "createIncident",
            "updateVideo", "updateStatus", "insertSnapshot"}

IngNext ==
    \/ Tick
    \/ \E w \in WS, v \in VideoIds, lat \in Lats : RecvInit(w, v, lat)
    \/ \E w \in WS : RecvVideoEnded(w)
    \/ \E w \in WS, scenario \in BOOLEAN : RecvSnapshot(w, scenario)
    \/ \E t \in tasks : InsertSnapshot(t)
    \/ \E w \in WS : WsClose(w)
    \/ \E t \in tasks : SelectVideo(t)
    \/ \E t \in tasks : InsertVideo(t)
    \/ \E t \in tasks : FindIncident(t)
    \/ \E t \in tasks : CreateIncident(t)
    \/ \E t \in tasks : UpdateVideo(t)
    \/ \E t \in tasks : UpdateStatus(t)

(***************************************************************************)
(* ensureVideoWithIncident, one call at a time                             *)
(***************************************************************************)
StreamIds == {"v1", "v2", "v3"}

\* startedAt: `new Date()` in handleInit, the timestamp of the request body
\* in POST /snapshots.
StartTimes == 0..MaxStart

\* The awaited database call of ensureVideoWithIncident that rejects, if any.
FailPoints == {"none", "selectVideo", "insertVideo", "findIncident",
               "createIncident", "updateVideo"}

\* A createIncident that anchors every incident at the reference point.
createIncidentAtOrigin(rows, lat, startedAt) ==
    Append(rows, [lat |-> 0, startedAt |-> startedAt, status |-> "active"])

\* createIncident: db.insert(incidents) of an active incident anchored at
\* the location and start time of the call.
createIncident(rows, lat, startedAt) ==
    Append(rows, [lat |-> lat, startedAt |-> startedAt, status |-> "active"])

\* assignVideoToIncident run without interleaving; `pick` is the incident
\* the scan of findMatchingIncident returned (NoIncident: none), `fail` the
\* database call that rejects. The result holds the tables afterwards, the
\* id returned (NoIncident when the call rejected) and whether an incident
\* was inserted.
assignVideoToIncident(vs, incs, videoId, lat, startedAt, pick, fail) ==
    LET create == pick = NoIncident
        incs1  == IF create THEN createIncident(incs, lat, startedAt) ELSE incs
        inc    == IF create THEN Len(incs) + 1 ELSE pick
    IN  IF fail = "findIncident" \/ (create /\ fail = "createIncident")
        THEN [videos |-> vs, incidents |-> incs, returned |-> NoIncident,
              created |-> FALSE]
        ELSE IF fail = "updateVideo"
        THEN [videos |-> vs, incidents |-> incs1, returned |-> NoIncident,
              created |-> create]
        ELSE [videos |-> setVideoIncident(vs, videoId, inc), incidents |-> incs1,
              returned |-> inc, created |-> create]

\* The database calls ensureVideoWithIncident awaits for a video id.
ensureSteps(videoId, lat, startedAt) ==
    LET found == videoRows(videos, videoId) IN
    IF found = {} THEN
        {"selectVideo", "insertVideo", "findIncident", "updateVideo"} \cup
        (IF matchingIncidents(incidents, lat, startedAt) = {}
         THEN {"createIncident"} ELSE {})
    ELSE LET existing == videos[CHOOSE i \in found : TRUE] IN
         IF existing.incidentId # NoIncident THEN {"selectVideo"}
         ELSE {"selectVideo", "findIncident", "updateVideo"} \cup
              (IF matchingIncidents(incidents, existing.lat, existing.startedAt) = {}
               THEN {"createIncident"} ELSE {})

Entry(videoId, lat, startedAt, assign, failed, returned, created, isNewVideo) ==
    [videoId |-> videoId, lat |-> lat, startedAt |-> startedAt, assign |-> assign,
     failed |-> failed, returned |-> returned, created |-> created,
     isNewVideo |-> isNewVideo]

StreamIdInOrder(v) ==
    \/ v = "v1"
    \/ v = "v2" /\ videoRows(videos, "v1") # {}
    \/ v = "v3" /\ videoRows(videos, "v2") # {}

failCount == Cardinality({i \in 1..Len(assignLog) : assignLog[i].failed # "none"})

AsgInit == assignLog = << >>

\* The call assignVideoToIncident(videoId, lat, startedAt) made by
\* ensureVideoWithIncident, and the entry of the call in the log.
EnsureAssigns(videoId, lat, startedAt, vs, fail, isNew) ==
    LET m == matchingIncidents(incidents, lat, startedAt) IN
    \E pick \in (IF m = {} THEN {NoIncident} ELSE m) :
        LET r == assignVideoToIncident(vs, incidents, videoId, lat, startedAt, pick, fail)
        IN  /\ videos' = r.videos
            /\ incidents' = r.incidents
            /\ assignLog' = Append(assignLog,
                   Entry(videoId, lat, startedAt, TRUE, fail, r.returned, r.created,
                         isNew /\ fail = "none"))

\* ensureVideoWithIncident(videoId, lat, lng, startedAt), from its first
\* query to its return or rejection, on the tables and the log of calls.
ensureVideoWithIncident(videoId, lat, startedAt, fail) ==
    /\ Len(assignLog) < MaxCalls
    /\ StreamIdInOrder(videoId)
    /\ fail \in {"none"} \cup ensureSteps(videoId, lat, startedAt)
    /\ fail # "none" => failCount < MaxFails
    /\ LET found == videoRows(videos, videoId) IN
       IF fail = "selectVideo"
       THEN /\ assignLog' = Append(assignLog,
                   Entry(videoId, lat, startedAt, FALSE, fail, NoIncident, FALSE, FALSE))
            /\ UNCHANGED <<videos, incidents>>
       ELSE IF found # {}
       THEN LET existing == videos[CHOOSE i \in found : TRUE] IN
            IF existing.incidentId # NoIncident
            THEN /\ assignLog' = Append(assignLog,
                        Entry(videoId, lat, startedAt, FALSE, fail,
                              existing.incidentId, FALSE, FALSE))
                 /\ UNCHANGED <<videos, incidents>>
            ELSE EnsureAssigns(videoId, existing.lat, existing.startedAt, videos,
                               fail, FALSE)
       ELSE LET res == insertVideo(videos,
                          [id |-> videoId, incidentId |-> NoIncident, status |-> "live",
                           lat |-> lat, startedAt |-> startedAt, endedAt |-> NoTime])
            IN  IF fail = "insertVideo" \/ ~res.ok
                THEN /\ assignLog' = Append(assignLog,
                            Entry(videoId, lat, startedAt, FALSE, "insertVideo",
                                  NoIncident, FALSE, FALSE))
                     /\ UNCHANGED <<videos, incidents>>
                ELSE EnsureAssigns(videoId, lat, startedAt, res.rows, fail, TRUE)

\* A call of ensureVideoWithIncident(videoId, lat, lng, startedAt) that runs
\* from its first query to its return or rejection with no other call in
\* between.
EnsureVideo(videoId, lat, startedAt, fail) ==
    /\ AsgFrame
    /\ ensureVideoWithIncident(videoId, lat, startedAt, fail)
    /\ UNCHANGED <<sessions, wsState, tasks, wsOut, broadcasts, owned, closedActive,
                   msgs, now, recv, snapshots, bufferAdds, effects>>

AsgNext ==
    \E v \in StreamIds, lat \in Lats, t \in StartTimes, fail \in FailPoints :
        EnsureVideo(v, lat, t, fail)

(***************************************************************************)
(* The shutdown handlers of main.ts                                        *)
(***************************************************************************)
ProcInit ==
    /\ sigHandlers = {}
    /\ signalCount = 0
    /\ exited = FALSE

\* process.on('SIGTERM' | 'SIGINT'): the handler up to the await of
\* flushAll(). The synchronous part of every flush(id, true) has run; when
\* no flush awaits a callback the promise is already resolved and
\* process.exit(0) follows before any other handler can run.
Signal ==
    /\ ProcFrame
    /\ ~exited
    /\ signalCount < MaxSignals
    /\ signalCount' = signalCount + 1
    /\ LET st == flushEach(BufState, DOMAIN buffers)
           awaited == st.inflight \ inflight
       IN  /\ SetBuf(st)
           /\ IF awaited = {}
              THEN exited' = TRUE /\ UNCHANGED sigHandlers
              ELSE sigHandlers' = sigHandlers \cup {awaited} /\ UNCHANGED exited
    /\ lastCall' = Call("flushAll", "all", TRUE, "void")
    /\ UNCHANGED <<settled, nextSnap>>

\* The callbacks a handler's flushAll() awaits have all settled: the
\* handler continues after the await with process.exit(0).
Exit ==
    /\ ProcFrame
    /\ ~exited
    /\ \E h \in sigHandlers : h \cap inflight = {}
    /\ exited' = TRUE
    /\ UNCHANGED <<sigHandlers, signalCount>>
    /\ UNCHANGED bufVars

\* The process until it exits: snapshots keep arriving, timers fire and
\* callbacks settle while a handler awaits flushAll().
ProcNext ==
    \/ ~exited /\ \E k \in Keys : Add(k)
    \/ ~exited /\ \E k \in Keys : TimerFlush(k)
    \/ ~exited /\ \E f \in inflight : CallbackSettles(f)
    \/ Signal
    \/ Exit

(***************************************************************************)
(* Rejected messages and rejected database calls (snapshotWebSocket.ts)    *)
(***************************************************************************)
ErrInit == failedOps = {}

\* What is wrong with a message that handleMessage, handleInit or
\* handleSnapshot turns down before any await.
Causes == {"initMissingField", "snapshotNoScenario", "unknownType"}

\* The error handleMessage / handleInit / handleSnapshot answers with.
rejection(w, cause) ==
    IF cause = "initMissingField" THEN "error: Missing required fields: videoId, lat, lng"
    ELSE IF cause = "unknownType" THEN "error: Unknown message type"
    ELSE IF w \notin DOMAIN sessions THEN "error: Session not initialized. Send init first."
    ELSE "error: Missing required field: scenario"

\* A handler that closes the connection on a message it turns down.
RecvInvalidCloses(w, cause) ==
    /\ IngFrame
    /\ wsState[w] = "open"
    /\ msgCount < MaxMsgs /\ ConnectionInOrder(w)
    /\ msgs' = [msgs EXCEPT ![w] = @ + 1]
    /\ recv' = [recv EXCEPT ![w] = Append(@, cause)]
    /\ Send(w, rejection(w, cause))
    /\ wsState' = [wsState EXCEPT ![w] = "closed"]
    /\ UNCHANGED <<videos, incidents, sessions, tasks, broadcasts, owned,
                   closedActive, now, snapshots, bufferAdds, effects>>

\* An init without videoId, lat or lng, a snapshot without scenario or a
\* message of an unknown type arrives: the handler answers with an error
\* and returns.
RecvInvalid(w, cause) ==
    /\ IngFrame
    /\ wsState[w] = "open"
    /\ msgCount < MaxMsgs /\ ConnectionInOrder(w)
    /\ msgs' = [msgs EXCEPT ![w] = @ + 1]
    /\ recv' = [recv EXCEPT ![w] = Append(@, cause)]
    /\ Send(w, rejection(w, cause))
    /\ UNCHANGED <<videos, incidents, sessions, wsState, tasks, broadcasts, owned,
                   closedActive, now, snapshots, bufferAdds, effects>>

FailedOp(t) == [ws |-> t.ws, n |-> t.n, kind |-> t.kind, pc |-> t.pc]

\* A catch that also forgets the session of the connection.
DbRejectsDropsSession(t) ==
    /\ ErrFrame
    /\ t \in tasks /\ t.kind \in {"init", "snapshot"}
    /\ Cardinality(failedOps) < MaxDbFails
    /\ failedOps' = failedOps \cup {FailedOp(t)}
    /\ tasks' = tasks \ {t}
    /\ sessions' = Restrict(sessions, DOMAIN sessions \ {t.ws})
    /\ IF wsState[t.ws] = "open"
       THEN Send(t.ws, "error: Invalid message format")
       ELSE UNCHANGED wsOut
    /\ UNCHANGED <<videos, incidents, wsState, broadcasts, owned, closedActive,
                   msgs, now, recv, snapshots, bufferAdds, effects>>

\* The database call a handleInit or handleSnapshot awaits rejects: the
\* rejection propagates to the catch of ws.on('message'), which answers
\* 'Invalid message format'; what the handler wrote before stays written.
DbRejects(t) ==
    /\ ErrFrame
    /\ t \in tasks /\ t.kind \in {"init", "snapshot"}
    /\ Cardinality(failedOps) < MaxDbFails
    /\ failedOps' = failedOps \cup {FailedOp(t)}
    /\ tasks' = tasks \ {t}
    /\ IF wsState[t.ws] = "open"
       THEN Send(t.ws, "error: Invalid message format")
       ELSE UNCHANGED wsOut
    /\ UNCHANGED <<videos, incidents, sessions, wsState, broadcasts, owned,
                   closedActive, msgs, now, recv, snapshots, bufferAdds, effects>>

\* The ingestion handlers with devices at one place, messages that are
\* turned down and database calls that reject.
ErrNext ==
    \/ \E w \in WS, v \in VideoIds : RecvInit(w, v, 0)
    \/ \E w \in WS : RecvSnapshot(w, TRUE)
    \/ \E w \in WS, cause \in Causes : RecvInvalid(w, cause)
    \/ \E t \in tasks : DbRejects(t)
    \/ \E t \in tasks : InsertSnapshot(t)
    \/ \E w \in WS : WsClose(w)
    \/ \E t \in tasks : SelectVideo(t)
    \/ \E t \in tasks : InsertVideo(t)
    \/ \E t \in tasks : FindIncident(t)
    \/ \E t \in tasks : CreateIncident(t)
    \/ \E t \in tasks : UpdateVideo(t)
    \/ \E t \in tasks : UpdateStatus(t)

(***************************************************************************)
(* The heartbeat of setupClient (sse.ts)                                   *)
(***************************************************************************)
HbInit == hbStopped = {}

\* The interval setupClient started for response r is still set: neither
\* res.on('close') nor its own callback has cleared it.
TimerRunning(r) == resState[r] = "open" /\ r \notin hbStopped

Heartbeats(r) == {i \in 1..Len(resLog[r]) : resLog[r][i].kind = "heartbeat"}

beatCount == SumOver([r \in Res |-> Cardinality(Heartbeats(r))], Res)

\* The interval of response r fires: the callback looks the captured id up
\* in clients and writes ': heartbeat' to the captured response, or clears
\* the interval.
Heartbeat(r) ==
    /\ HbFrame
    /\ TimerRunning(r)
    /\ IF resId[r] \in DOMAIN clients
       THEN /\ beatCount < MaxBeats
            /\ resLog' = [resLog EXCEPT ![r] = Write(@, Event("heartbeat", NoTopic, 0))]
            /\ UNCHANGED hbStopped
       ELSE /\ hbStopped' = hbStopped \cup {r}
            /\ UNCHANGED resLog
    /\ NotPublish
    /\ UNCHANGED <<clients, incidentSubscriptions, resState, resId, resTopic,
                   fetchPc, pubSeq, broken>>

\* The hub's connections, publishes and heartbeats.
HbNext ==
    \/ \E id \in ClientIds : AddClient(id)
    \/ \E id \in ClientIds, t \in Topics : SubscribeToIncident(id, t)
    \/ Broadcast
    \/ \E r \in Res : Close(r)
    \/ \E r \in Res : Heartbeat(r)

(***************************************************************************)
(* POST /snapshots (routes/snapshots.ts)                                   *)
(***************************************************************************)
PostInit == posts = << >>

\* incidents.id is a generated string; the model's incident rows are named
\* by their position.
IncidentIds == <<"i1", "i2", "i3">>

\* What the handler may hit: a body without a required field, a rejection
\* inside ensureVideoWithIncident, a rejection of the snapshot insert.
PostFails == FailPoints \cup {"badRequest", "insertSnapshot"}

postFailCount == Cardinality({i \in 1..Len(posts) : posts[i].status # 201})

\* One request handled from its body to its response, no other request in
\* between: validation, ensureVideoWithIncident, the newVideo broadcast,
\* the insert, snapshotBuffer.add(incidentId, newSnapshot), the
\* snapshotReceived broadcast and the 201; 400 on a missing field, 500
\* from the catch.
PostSnapshot(videoId, lat, timestamp, fail) ==
    /\ PostFrame
    /\ Len(posts) < MaxCalls
    /\ fail # "none" => postFailCount < MaxFails
    /\ UNCHANGED <<sessions, wsState, tasks, wsOut, broadcasts, owned, closedActive,
                   msgs, now, recv, effects>>
    /\ IF fail = "badRequest"
       THEN /\ posts' = Append(posts, [videoId |-> videoId, status |-> 400, key |-> "none",
                                        broadcasts |-> << >>])
            /\ UNCHANGED <<videos, incidents, assignLog, snapshots, bufferAdds>>
       ELSE /\ ensureVideoWithIncident(videoId, lat, timestamp,
                                       IF fail = "insertSnapshot" THEN "none" ELSE fail)
            /\ LET call  == assignLog'[Len(assignLog')]
                   first == IF call.isNewVideo THEN <<"newVideo">> ELSE << >>
               IN  IF call.failed # "none"
                   THEN /\ posts' = Append(posts, [videoId |-> videoId, status |-> 500,
                                                    key |-> "none", broadcasts |-> << >>])
                        /\ UNCHANGED <<snapshots, bufferAdds>>
                   ELSE IF fail = "insertSnapshot"
                   THEN /\ posts' = Append(posts, [videoId |-> videoId, status |-> 500,
                                                    key |-> "none", broadcasts |-> first])
                        /\ UNCHANGED <<snapshots, bufferAdds>>
                   ELSE /\ snapshots' = Append(snapshots, [videoId |-> videoId, ws |-> "http",
                                                           n |-> Len(posts) + 1])
                        /\ bufferAdds' = Append(bufferAdds,
                                                [key |-> IncidentIds[call.returned],
                                                 snapshot |-> Len(snapshots) + 1])
                        /\ posts' = Append(posts,
                               [videoId |-> videoId, status |-> 201,
                                key |-> IncidentIds[call.returned],
                                broadcasts |-> Append(first, "snapshotReceived")])

PostNext ==
    \E v \in StreamIds, lat \in Lats, t \in StartTimes, fail \in PostFails :
        PostSnapshot(v, lat, t, fail)

Init ==
    HubInit /\ BufInit /\ IngInit /\ AsgInit /\ ProcInit /\ ErrInit /\ HbInit /\ PostInit

SpecIngest == Init /\ [][IngNext]_vars

SpecHub == Init /\ [][HubNext]_vars

SpecBuf == Init /\ [][BufNext]_vars

SpecAssign == Init /\ [][AsgNext]_vars

SpecShutdown == Init /\ [][ProcNext]_vars

SpecIngestErrors == Init /\ [][ErrNext]_vars

SpecHubBeat == Init /\ [][HbNext]_vars

SpecPost == Init /\ [][PostNext]_vars

\* A timer set with setTimeout and not cleared fires: the event loop runs
\* its callback once the window has elapsed.
SpecBufTimers == SpecBuf /\ \A k \in Keys : WF_vars(TimerFlush(k))

\* The enforced timeout of the analysis call: every invocation of the
\* callback settles (a batch is named by its first snapshot).
processBatchResponds ==
    \A e \in 1..MaxSnaps :
        WF_vars(\E f \in inflight : f.batch[1] = e /\ CallbackSettles(f))

SpecBufFair == SpecBufTimers /\ processBatchResponds

(***************************************************************************)
(* Claims about the SSEManager                                             *)
(***************************************************************************)
IsPub(e) == e.kind = "pub"

\* C1: on a response opened with subscribeToIncident(c, T), no published
\* event (unscoped, or published to T) is written before the response's
\* `currentState` event.
C1_BaselineBeforeUpdates ==
    \A r \in Res :
        resTopic[r] # NoTopic =>
            \A i \in 1..Len(resLog[r]) :
                (IsPub(resLog[r][i]) /\ resLog[r][i].topic \in {NoTopic, resTopic[r]})
                    => \E j \in 1..(i - 1) : resLog[r][j].kind = "currentState"

\* C6: an event published with broadcastToIncident(T, e) is only ever
\* written to responses that were opened as subscriptions to exactly T.
C6_StrictTopicScoping ==
    \A r \in Res :
        \A i \in 1..Len(resLog[r]) :
            (IsPub(resLog[r][i]) /\ resLog[r][i].topic # NoTopic)
                => resTopic[r] = resLog[r][i].topic

\* The ids a publish to `topic` iterates over and finds registered.
Targeted(topic) ==
    IF topic = NoTopic THEN DOMAIN clients
    ELSE IF topic \in DOMAIN incidentSubscriptions
         THEN incidentSubscriptions[topic] \cap DOMAIN clients
         ELSE {}

\* C7: in a publish during which the writes to the clients in pubFailed
\* throw, exactly those clients leave the client table and the subscription
\* index, and every other targeted client has the event appended.
C7_FailureIsolation ==
    [][ pubSeq' = pubSeq + 1 =>
          /\ DOMAIN clients' = DOMAIN clients \ pubFailed'
          /\ \A c \in pubFailed' : \A t \in DOMAIN incidentSubscriptions' :
                 c \notin incidentSubscriptions'[t]
          /\ \A t \in DOMAIN incidentSubscriptions :
                 incidentSubscriptions[t] \ pubFailed' # {} =>
                     /\ t \in DOMAIN incidentSubscriptions'
                     /\ incidentSubscriptions'[t] = incidentSubscriptions[t] \ pubFailed'
          /\ \A c \in Targeted(pubTopic') \ pubFailed' :
                 resLog'[clients[c].res] =
                     Append(resLog[clients[c].res], Event("pub", pubTopic', pubSeq'))
      ]_vars

\* C8: on every response, two published events of the same topic (or both
\* unscoped) appear in the order in which they were published.
C8_PerClientFIFO ==
    \A r \in Res :
        \A i, j \in 1..Len(resLog[r]) :
            (i < j /\ IsPub(resLog[r][i]) /\ IsPub(resLog[r][j])
                   /\ resLog[r][i].topic = resLog[r][j].topic)
                => resLog[r][i].seq < resLog[r][j].seq

\* C8 witness: some response has received two published events of one topic.
C8_Witness ==
    \E r \in Res :
        \E i, j \in 1..Len(resLog[r]) :
            /\ i < j /\ IsPub(resLog[r][i]) /\ IsPub(resLog[r][j])
            /\ resLog[r][i].topic = resLog[r][j].topic

\* A response is registered when the clients table holds it under its id.
Registered(r) == resId[r] \in DOMAIN clients /\ clients[resId[r]].res = r

\* A connection that is open and whose writes have not thrown.
Connected(r) == resState[r] = "open" /\ r \notin broken

CurrentStates(r) == {i \in 1..Len(resLog[r]) : resLog[r][i].kind = "currentState"}

\* C25: a connection opened for a topic that is still connected when the
\* fetch of the state has returned holds exactly one currentState event, and
\* every currentState event on any connection is the one of the topic that
\* connection was opened for.
C25_OneCurrentStatePerConnect ==
    \A r \in Res :
        /\ \A i \in CurrentStates(r) :
              resTopic[r] # NoTopic /\ resLog[r][i].topic = resTopic[r]
        /\ Cardinality(CurrentStates(r)) <= 1
        /\ (resTopic[r] # NoTopic /\ fetchPc[r] = "done" /\ Connected(r))
              => Cardinality(CurrentStates(r)) = 1

\* C26: a call of broadcast writes its event to every connection that is
\* open and whose writes do not throw, whatever it is subscribed to.
C26_BroadcastReachesAll ==
    [][(pubSeq' = pubSeq + 1 /\ pubTopic' = NoTopic) =>
          \A r \in Res :
              (Connected(r) /\ Connected(r)')
                  => resLog'[r] = Append(resLog[r], Event("pub", NoTopic, pubSeq'))]_vars

\* C29: every connection that is open and whose writes have not thrown is
\* registered, also when another connection was opened or closed under the
\* same client id.
C29_SameIdBothRegistered ==
    \A r \in Res : Connected(r) => Registered(r)

(***************************************************************************)
(* Claims about the SnapshotBuffer                                         *)
(***************************************************************************)
BufferOf(k) == IF k \in DOMAIN buffers THEN buffers[k].snapshots ELSE << >>

\* C2: while a flush of a key awaits the callback, the batch it handed over
\* stays as it was at hand-off (until that very flush settles), and the
\* buffer of the key holds only snapshots added after the hand-off, so an
\* add during the flush lands in a fresh buffer and not in that batch.
C2_FreshBufferDuringFlush ==
    [][ /\ \A f \in inflight :
             \/ f \in inflight'
             \/ \E s \in settled' \ settled : s.key = f.key /\ s.batch = f.batch
        /\ \A f \in inflight' :
             \A o \in Elems(BufferOf(f.key))' : \A x \in Elems(f.batch) : o > x
      ]_vars

\* C2 witness: an add ran while a flush of the same key was in flight.
C2_Witness ==
    \E f \in inflight : Len(BufferOf(f.key)) > 0

Occurrences(o) ==
    LET idx == {<<k, i, j>> \in Keys \X (1..MaxSnaps) \X (1..MaxSnaps) :
                   /\ i <= Len(handed[k])
                   /\ j <= Len(handed[k][i])
                   /\ handed[k][i][j] = o}
    IN  Cardinality(idx)

\* C3: every snapshot is passed to the callback at most once; a flush
\* resolves also when the callback throws, and the failed batch is not put
\* back into the buffer.
C3_AtMostOnce ==
    /\ \A k \in Keys : Len(handed[k]) <= MaxSnaps
    /\ \A o \in 1..nextSnap : Occurrences(o) <= 1
    /\ \A s \in settled :
          /\ s.flush = "resolved"
          /\ Elems(s.batch) \cap Elems(BufferOf(s.key)) = {}

\* C3 witness: a callback has thrown and a later batch of the same key has
\* been handed over since.
C3_Witness ==
    \E s \in settled :
        /\ s.outcome = "throw"
        /\ \E i \in 1..Len(handed[s.key]) :
              \A o \in Elems(handed[s.key][i]) : \A x \in Elems(s.batch) : o > x

\* C14: an add that leaves a key with fewer than maxBatchSize snapshots
\* hands nothing to the callback (so no buffer ever holds maxBatchSize); the
\* add that brings the buffer to maxBatchSize hands the whole buffer over
\* within the add, leaves it empty and leaves no timer pending for the key.
C14_MaxSizeTrigger ==
    /\ [](\A k \in Keys : Len(BufferOf(k)) < maxBatchSize)
    /\ [][\A k \in Keys :
            (nextSnap' = nextSnap + 1 /\ lastCall'.key = k)
                => LET full == Append(BufferOf(k), nextSnap') IN
                   IF Len(full) < maxBatchSize
                   THEN /\ handed' = handed
                        /\ inflight' = inflight
                        /\ BufferOf(k)' = full
                        /\ pendingTimers'[k] = 1
                   ELSE /\ handed' = [handed EXCEPT ![k] = Append(@, full)]
                        /\ inflight' = inflight \cup {[key |-> k, batch |-> full]}
                        /\ BufferOf(k)' = << >>
                        /\ pendingTimers'[k] = 0
                        /\ ~buffers'[k].timer]_vars

\* C14 witness: an add has just filled a buffer to maxBatchSize and flushed it.
C14_Witness ==
    /\ lastCall.op = "add"
    /\ \E f \in inflight :
          /\ f.key = lastCall.key
          /\ Len(f.batch) = maxBatchSize
          /\ f.batch[maxBatchSize] = nextSnap
    /\ pendingTimers[lastCall.key] = 0

\* C15: a timer firing on a buffer with fewer than minBatchSize snapshots
\* hands nothing to the callback, leaves the buffer as it was and leaves
\* exactly one timer pending; hence a buffer holding between one and
\* minBatchSize - 1 snapshots always has exactly one pending timer.
C15_PollingRearm ==
    /\ [](\A k \in Keys :
             (Len(BufferOf(k)) >= 1 /\ Len(BufferOf(k)) < minBatchSize)
                 => pendingTimers[k] = 1 /\ buffers[k].timer)
    /\ [][\A k \in Keys :
            (lastCall'.op = "timerFlush" /\ lastCall'.key = k
                /\ k \in DOMAIN buffers /\ Len(BufferOf(k)) < minBatchSize)
                => /\ handed' = handed
                   /\ inflight' = inflight
                   /\ buffers' = buffers
                   /\ pendingTimers'[k] = 1]_vars

\* C15 witness: the timer has just fired on a buffer below the minimum.
C15_Witness ==
    /\ lastCall.op = "timerFlush"
    /\ Len(BufferOf(lastCall.key)) >= 1
    /\ Len(BufferOf(lastCall.key)) < minBatchSize
    /\ pendingTimers[lastCall.key] = 1
    /\ handed[lastCall.key] = << >>

\* C16 as stated: with timers that fire, every non-empty buffer is flushed
\* again and again, so a buffer left non-empty by the last add of its key
\* does not stay non-empty for ever.
C16_LoneStreamFlushes ==
    \A k \in Keys : []<>(Len(BufferOf(k)) = 0)

\* C16 amended: with timers that fire, a buffer holding at least
\* minBatchSize snapshots does not stay that way for ever: it is handed to
\* the callback, with or without further adds.
C16_ReadyBufferFlushes ==
    \A k \in Keys : []<>(Len(BufferOf(k)) < minBatchSize)

\* C16 witness: the timer has just fired on a buffer holding at least
\* minBatchSize and fewer than maxBatchSize snapshots and handed it over.
C16_Witness ==
    /\ lastCall.op = "timerFlush"
    /\ BufferOf(lastCall.key) = << >>
    /\ \E f \in inflight :
          /\ f.key = lastCall.key
          /\ Len(f.batch) >= minBatchSize
          /\ Len(f.batch) < maxBatchSize
          /\ f.batch = handed[f.key][Len(handed[f.key])]

\* C17: flushAll hands the content of every non-empty buffer to the
\* callback in one invocation per key, whatever its size, leaving the buffer
\* empty and no timer pending for the key; a key with an empty buffer gets
\* no invocation.
C17_FlushAllDrains ==
    [][lastCall'.op = "flushAll" =>
          \A k \in Keys :
              IF Len(BufferOf(k)) > 0
              THEN /\ handed'[k] = Append(handed[k], BufferOf(k))
                   /\ [key |-> k, batch |-> BufferOf(k)] \in inflight'
                   /\ BufferOf(k)' = << >>
                   /\ pendingTimers'[k] = 0
                   /\ ~buffers'[k].timer
              ELSE /\ handed'[k] = handed[k]
                   /\ {f \in inflight' : f.key = k} = {f \in inflight : f.key = k}
                   /\ pendingTimers'[k] = pendingTimers[k]]_vars

\* C17 witness: flushAll has just drained a buffer that was below the
\* minimum while another key had nothing to drain.
C17_Witness ==
    /\ lastCall.op = "flushAll"
    /\ \E f \in inflight :
          /\ Len(f.batch) < minBatchSize
          /\ f.batch = handed[f.key][Len(handed[f.key])]
          /\ BufferOf(f.key) = << >>
    /\ \E k \in Keys : handed[k] = << >>

\* C18: flush(key, false) on a buffer holding at least one and fewer than
\* minBatchSize snapshots returns [] at once, does not call the callback and
\* leaves the buffer and its pending timer as they were.
C18_GatedFlushIsNoOp ==
    [][\A k \in Keys :
          (lastCall'.op = "flush" /\ lastCall'.key = k /\ ~lastCall'.force
              /\ Len(BufferOf(k)) >= 1 /\ Len(BufferOf(k)) < minBatchSize)
              => /\ lastCall'.result = "[]"
                 /\ handed' = handed
                 /\ inflight' = inflight
                 /\ buffers' = buffers
                 /\ pendingTimers' = pendingTimers]_vars

\* C18 witness: flush(key, false) has just returned [] for a buffer below
\* the minimum that still holds its snapshots and its timer.
C18_Witness ==
    /\ lastCall.op = "flush" /\ ~lastCall.force /\ lastCall.result = "[]"
    /\ Len(BufferOf(lastCall.key)) >= 1
    /\ Len(BufferOf(lastCall.key)) < minBatchSize
    /\ pendingTimers[lastCall.key] = 1

\* C19: for each key at most one invocation of the callback is awaited at
\* any time.
C19_OneFlushInFlight ==
    \A k \in Keys : Cardinality({f \in inflight : f.key = k}) <= 1

Quiet(w) == wsState[w] = "closed" /\ \A t \in tasks : t.ws # w

Emitted(event, v, w) == broadcasts[<<event, v, w>>]

\* C4: two distinct streams at the same coordinates and start time, each
\* assigned to an incident opened at that place and time, are assigned to
\* one and the same incident: their assign calls, concurrent or not, create
\* exactly one incident between them.
C4_OneIncidentPerPlaceTime ==
    \A a, b \in 1..Len(videos) :
        LET i == videos[a].incidentId
            j == videos[b].incidentId
        IN  (/\ videos[a].id # videos[b].id
             /\ videos[a].lat = videos[b].lat
             /\ videos[a].startedAt = videos[b].startedAt
             /\ i # NoIncident /\ j # NoIncident
             /\ incidents[i].lat = videos[a].lat
             /\ incidents[i].startedAt = videos[a].startedAt
             /\ incidents[j].lat = videos[b].lat
             /\ incidents[j].startedAt = videos[b].startedAt)
            => i = j

\* C5: for every stream id the videos table holds at most one row and the
\* newVideo broadcast is made at most once, whatever the interleaving of
\* the init handlers of the connections.
C5_OneStreamRowOneNewVideo ==
    \A v \in VideoIds :
        /\ Cardinality(videoRows(videos, v)) <= 1
        /\ SumOver([w \in WS |-> Emitted("newVideo", v, w)], WS) <= 1

\* C5 witness: two connections sent init for the same new stream id, both
\* handlers found no row, one insert went through (newVideo was broadcast)
\* and the other connection's insert was refused.
C5_Witness ==
    \E v \in VideoIds, w1, w2 \in WS :
        /\ w1 # w2
        /\ Emitted("newVideo", v, w1) = 1
        /\ v \in owned[w1]
        /\ \E i \in 1..Len(wsOut[w2]) : wsOut[w2][i] = "error: Invalid message format"

\* C9: a connection's handlers issue at most one videoStatusChanged
\* broadcast (one update to `ended`) for its stream, and exactly one once a
\* connection that was active at its close has finished closing.
C9_EndedExactlyOnce ==
    \A w \in WS :
        LET n == SumOver([v \in VideoIds |-> Emitted("videoStatusChanged", v, w)], VideoIds)
        IN  /\ n <= 1
            /\ (Quiet(w) /\ w \in closedActive) => n = 1

\* C10: once a connection is closed and its handlers have finished, no
\* session entry remains for it, and every stream a handleInit of that
\* connection took ownership of is `ended`, has an end time, and its
\* videoStatusChanged broadcast was made.
C10_ClosedMeansEnded ==
    \A w \in WS :
        Quiet(w) =>
            /\ w \notin DOMAIN sessions
            /\ \A v \in owned[w] :
                  /\ \A i \in videoRows(videos, v) :
                        videos[i].status = "ended" /\ videos[i].endedAt # NoTime
                  /\ Emitted("videoStatusChanged", v, w) >= 1

Received(w, type) == \E i \in 1..Len(recv[w]) : recv[w][i] = type

Sent(w, msg) == \E i \in 1..Len(wsOut[w]) : wsOut[w][i] = msg

\* C11: an init message arriving on a connection that already received an
\* init is answered with the error at once and starts no lookup, insert or
\* assignment: no stream, incident or session is created or changed by it.
C11_SecondInitIgnored ==
    [][\A w \in WS :
          (recv'[w] = Append(recv[w], "init") /\ Received(w, "init"))
              => /\ wsOut'[w] = Append(wsOut[w], "error: Session already initialized")
                 /\ tasks' = tasks]_vars

\* C12: a snapshot message arriving on a connection that has received no
\* init is answered with an error, starts no insert, adds nothing to the
\* buffer, broadcasts nothing and leaves the connection without a session;
\* and no persisted snapshot stems from a message that preceded every init
\* of its connection.
C12_SnapshotBeforeInit ==
    /\ [](\A i \in 1..Len(snapshots) :
             \E j \in 1..(snapshots[i].n - 1) : recv[snapshots[i].ws][j] = "init")
    /\ [][\A w \in WS :
            (recv'[w] = Append(recv[w], "snapshot") /\ ~Received(w, "init"))
                => /\ wsOut'[w] = Append(wsOut[w],
                                         "error: Session not initialized. Send init first.")
                   /\ tasks' = tasks
                   /\ snapshots' = snapshots
                   /\ bufferAdds' = bufferAdds
                   /\ broadcasts' = broadcasts
                   /\ w \notin DOMAIN sessions']_vars

\* C12 witness: the first message of a connection was a snapshot, it was
\* answered with the error and nothing was persisted for the connection.
C12_Witness ==
    \E w \in WS :
        /\ Len(recv[w]) >= 1 /\ recv[w][1] = "snapshot"
        /\ Len(wsOut[w]) >= 1
        /\ wsOut[w][1] = "error: Session not initialized. Send init first."
        /\ w \notin DOMAIN sessions
        /\ \A i \in 1..Len(snapshots) : snapshots[i].ws # w

\* C13: once the videoEnded message of a connection has been handled (its
\* acknowledgement was sent), a snapshot message arriving on the connection
\* starts no insert: it is not persisted, buffered or broadcast.
C13_NoSnapshotAfterEnded ==
    [][\A w \in WS :
          (recv'[w] = Append(recv[w], "snapshot") /\ Sent(w, "videoEnded_ack"))
              => tasks' = tasks]_vars

\* C30: the close of a connection that has no session (it never became
\* active) changes no stream row, makes no broadcast, leaves the session
\* table as it was and starts no handler work; no disconnect work ever runs
\* for a connection that was not active at its close.
C30_InactiveCloseIsNoOp ==
    /\ [](\A t \in tasks : t.kind = "disconnect" => t.ws \in closedActive)
    /\ [][\A w \in WS :
            (wsState[w] = "open" /\ wsState'[w] = "closed" /\ w \notin DOMAIN sessions)
                => /\ videos' = videos
                   /\ incidents' = incidents
                   /\ broadcasts' = broadcasts
                   /\ sessions' = sessions
                   /\ tasks' = tasks
                   /\ wsOut' = wsOut
                   /\ closedActive' = closedActive]_vars

\* C30 witness: a connection closed without ever having a session while
\* another connection holds a session for a live stream.
C30_Witness ==
    \E w, x \in WS :
        /\ wsState[w] = "closed" /\ w \notin closedActive /\ owned[w] = {}
        /\ w \notin DOMAIN sessions
        /\ x \in DOMAIN sessions /\ wsState[x] = "open"
        /\ \A i \in videoRows(videos, sessions[x].videoId) : videos[i].status = "live"

\* The persisted snapshots of connection w, in the order of their inserts,
\* as the numbers of the messages they arrived in.
PersistedOrder(w) ==
    LET idx == {i \in 1..Len(snapshots) : snapshots[i].ws = w} IN
    [i \in idx |-> snapshots[i].n]

\* C27: the snapshots of one connection are persisted, and added to the
\* buffer, in the order in which their messages arrived; and a connection
\* whose first message was an init that succeeded is never told that its
\* session is not initialized (a message sent after the init is handled
\* after the init has completed).
C27_ArrivalOrder ==
    /\ \A w \in WS :
          \A i, j \in DOMAIN PersistedOrder(w) :
              i < j => PersistedOrder(w)[i] < PersistedOrder(w)[j]
    /\ \A a, b \in 1..Len(bufferAdds) :
          (a < b /\ snapshots[bufferAdds[a].snapshot].ws = snapshots[bufferAdds[b].snapshot].ws)
              => snapshots[bufferAdds[a].snapshot].n < snapshots[bufferAdds[b].snapshot].n
    /\ \A w \in WS :
          (/\ Len(recv[w]) >= 1 /\ recv[w][1] = "init"
           /\ Sent(w, "initialized")
           /\ ~Sent(w, "error: Invalid message format"))
              => ~Sent(w, "error: Session not initialized. Send init first.")

\* C28: when the timer of a key fires on a buffer holding exactly
\* minBatchSize snapshots (fewer than maxBatchSize, so no add has flushed
\* them), exactly one invocation of the callback is made, its batch is
\* exactly the buffer, the buffer is left empty with no timer pending, and
\* nothing is handed over for any other key; no invocation is ever made
\* with an empty batch, so the emptied buffer yields no second invocation.
C28_ExactlyMinBatch ==
    /\ [](\A k \in Keys : \A i \in 1..Len(handed[k]) : Len(handed[k][i]) >= 1)
    /\ [][\A k \in Keys :
            (lastCall'.op = "timerFlush" /\ lastCall'.key = k
                /\ Len(BufferOf(k)) = minBatchSize /\ minBatchSize < maxBatchSize)
                => /\ handed' = [handed EXCEPT ![k] = Append(@, BufferOf(k))]
                   /\ inflight' = inflight \cup {[key |-> k, batch |-> BufferOf(k)]}
                   /\ [key |-> k, batch |-> BufferOf(k)] \notin inflight
                   /\ BufferOf(k)' = << >>
                   /\ pendingTimers'[k] = 0
                   /\ ~buffers'[k].timer]_vars

\* C28 witness: the first batch of a key is exactly the minBatchSize
\* snapshots added to it, handed over by the timer, and nothing is left.
C28_Witness ==
    /\ lastCall.op = "timerFlush"
    /\ Len(handed[lastCall.key]) = 1
    /\ Len(handed[lastCall.key][1]) = minBatchSize
    /\ [key |-> lastCall.key, batch |-> handed[lastCall.key][1]] \in inflight
    /\ BufferOf(lastCall.key) = << >>
    /\ pendingTimers[lastCall.key] = 0

(***************************************************************************)
(* Claims about incident assignment, one call at a time                    *)
(***************************************************************************)
\* The calls of assignVideoToIncident made so far, in order.
AssignCalls == SelectSeq(assignLog, LAMBDA e : e.assign)

TimeApart(a, b) == IF a >= b THEN a - b ELSE b - a

\* C22: when every assign call so far succeeded, was made for a location
\* within the radius of the first call's location and for a start time
\* within the time window of the first call's, and all incidents are still
\* active, then exactly one incident exists, the first call created it and
\* every later call returned it without creating one.
C22_SequentialAssignIdempotent ==
    LET L == AssignCalls IN
    (/\ Len(L) >= 1
     /\ \A i \in 1..Len(L) :
           /\ L[i].failed = "none"
           /\ isWithinRadius(L[i].lat, L[1].lat, INCIDENT_RADIUS_METERS)
           /\ TimeApart(L[i].startedAt, L[1].startedAt) <= INCIDENT_TIME_WINDOW_HOURS
     /\ \A j \in 1..Len(incidents) : incidents[j].status = "active")
        => /\ Len(incidents) = 1
           /\ L[1].created /\ L[1].returned = 1
           /\ incidents[1].lat = L[1].lat /\ incidents[1].startedAt = L[1].startedAt
           /\ \A i \in 2..Len(L) : L[i].returned = 1 /\ ~L[i].created

\* C22 witness: three assign calls in a row, for different streams, at
\* locations up to exactly the radius away from the first and at start
\* times before and after the first's, all returned the one incident.
C22_Witness ==
    LET L == AssignCalls IN
    /\ Len(L) = 3 /\ Len(assignLog) = 3
    /\ \A i \in 1..3 : L[i].failed = "none" /\ L[i].returned = 1
    /\ Len(incidents) = 1
    /\ \E i \in 2..3 : haversineDistance(L[i].lat, L[1].lat) = INCIDENT_RADIUS_METERS
    /\ \E i \in 2..3 : L[i].startedAt = L[1].startedAt + INCIDENT_TIME_WINDOW_HOURS
    /\ \E i \in 2..3 : L[i].startedAt = L[1].startedAt - INCIDENT_TIME_WINDOW_HOURS

\* The assign call made in this step, if one was made and it returned.
AssignReturned ==
    /\ Len(assignLog') = Len(assignLog) + 1
    /\ assignLog'[Len(assignLog')].assign
    /\ assignLog'[Len(assignLog')].failed = "none"

\* C23 as stated: an assign call made when every active incident is beyond
\* the radius of the call's location, or opened more than the time window
\* before or after the call's start time, inserts a new incident anchored
\* at the call and returns it.
C23_OutOfRangeCreates ==
    [][AssignReturned =>
          LET c == assignLog'[Len(assignLog')] IN
          (\A i \in 1..Len(incidents) :
               incidents[i].status = "active" =>
                   \/ ~isWithinRadius(c.lat, incidents[i].lat, INCIDENT_RADIUS_METERS)
                   \/ TimeApart(c.startedAt, incidents[i].startedAt)
                          > INCIDENT_TIME_WINDOW_HOURS)
              => /\ c.created /\ c.returned = Len(incidents) + 1
                 /\ incidents' = Append(incidents, [lat |-> c.lat, startedAt |-> c.startedAt,
                                                    status |-> "active"])]_vars

\* C23 amended: the window is one-sided. An assign call made when every
\* active incident is beyond the radius of the call's location, or was
\* opened more than the time window before the call's start time, inserts a
\* new incident anchored at the call and returns it; and an existing
\* incident that a call returns is active, within the radius and not
\* opened more than the time window before the call's start time.
C23_StaleOrFarCreates ==
    [][AssignReturned =>
          LET c == assignLog'[Len(assignLog')] IN
          /\ (\A i \in 1..Len(incidents) :
                 incidents[i].status = "active" =>
                     \/ ~isWithinRadius(c.lat, incidents[i].lat, INCIDENT_RADIUS_METERS)
                     \/ c.startedAt - incidents[i].startedAt > INCIDENT_TIME_WINDOW_HOURS)
                => /\ c.created /\ c.returned = Len(incidents) + 1
                   /\ incidents' = Append(incidents,
                                          [lat |-> c.lat, startedAt |-> c.startedAt,
                                           status |-> "active"])
          /\ ~c.created =>
                /\ c.returned \in 1..Len(incidents)
                /\ incidents' = incidents
                /\ incidents[c.returned].status = "active"
                /\ isWithinRadius(c.lat, incidents[c.returned].lat, INCIDENT_RADIUS_METERS)
                /\ c.startedAt - incidents[c.returned].startedAt
                      <= INCIDENT_TIME_WINDOW_HOURS]_vars

\* C23 witness: the last assign call created a second incident although
\* the first one is within the radius, because the first was opened more
\* than the time window before the call's start time.
C23_Witness ==
    /\ Len(assignLog) >= 2 /\ Len(incidents) = 2
    /\ LET c == assignLog[Len(assignLog)] IN
       /\ c.assign /\ c.failed = "none" /\ c.created /\ c.returned = 2
       /\ isWithinRadius(c.lat, incidents[1].lat, INCIDENT_RADIUS_METERS)
       /\ c.startedAt - incidents[1].startedAt > INCIDENT_TIME_WINDOW_HOURS

\* C24: every row of the videos table has an incident, also after a
\* call during which the select, insert or update of the assignment
\* rejected.
C24_NoStreamWithoutIncident ==
    \A i \in 1..Len(videos) : videos[i].incidentId # NoIncident

(***************************************************************************)
(* Claims about the shutdown handlers                                      *)
(***************************************************************************)
\* C21: when the process has exited after SIGTERM or SIGINT, no snapshot
\* passed to add() is still in a buffer (each one was handed to the
\* callback, whatever the size of its buffer), and no snapshot was handed
\* over twice, also when a second signal arrived.
C21_ShutdownLosesNothing ==
    /\ exited => \A k \in Keys : BufferOf(k) = << >>
    /\ signalCount >= 1 => \A o \in 1..nextSnap : Occurrences(o) <= 1

(***************************************************************************)
(* Further claims about the SnapshotBuffer                                 *)
(***************************************************************************)
\* C31: every key has at most one pending timer, it has one exactly when
\* its buffer is non-empty (and then the buffer holds the handle), and a
\* step that empties a buffer leaves no timer pending for the key.
C31_TimerInvariant ==
    /\ [](\A k \in Keys :
             /\ pendingTimers[k] <= 1
             /\ pendingTimers[k] = 1 <=> Len(BufferOf(k)) > 0
             /\ k \in DOMAIN buffers => (buffers[k].timer <=> pendingTimers[k] = 1))
    /\ [][\A k \in Keys :
            (Len(BufferOf(k)) > 0 /\ Len(BufferOf(k))' = 0)
                => pendingTimers'[k] = 0 /\ ~buffers'[k].timer]_vars

\* C31 witness: a forced flush has just emptied a buffer below the minimum
\* whose timer was pending, while another key still waits with its timer.
C31_Witness ==
    /\ lastCall.op = "flush" /\ lastCall.force /\ lastCall.result = "awaiting"
    /\ BufferOf(lastCall.key) = << >>
    /\ pendingTimers[lastCall.key] = 0
    /\ \E k \in Keys : Len(BufferOf(k)) > 0 /\ pendingTimers[k] = 1

\* The batch handed over in this step for key k, when there is one.
HandsOver(k) == Len(handed'[k]) = Len(handed[k]) + 1

\* C35: no batch handed to the callback holds more than maxBatchSize
\* snapshots, no buffer holds more than maxBatchSize after a call returns,
\* and a batch handed over by an add, a timer or a flush without force
\* holds at least minBatchSize.
C35_BatchSizeBounds ==
    /\ [](\A k \in Keys :
             /\ Len(BufferOf(k)) <= maxBatchSize
             /\ \A i \in 1..Len(handed[k]) : Len(handed[k][i]) <= maxBatchSize)
    /\ [][\A k \in Keys :
            (HandsOver(k) /\ ~lastCall'.force)
                => Len(handed'[k][Len(handed'[k])]) >= minBatchSize]_vars

\* C35 witness: batches of exactly minBatchSize and of exactly maxBatchSize
\* have been handed over, and a forced flush handed over a smaller one.
C35_Witness ==
    /\ \E k \in Keys : \E i \in 1..Len(handed[k]) : Len(handed[k][i]) = maxBatchSize
    /\ \E k \in Keys : \E i \in 1..Len(handed[k]) : Len(handed[k][i]) < minBatchSize

RECURSIVE Concat(_)
Concat(batches) ==
    IF batches = << >> THEN << >> ELSE Head(batches) \o Concat(Tail(batches))

\* Everything the buffer has taken for a key: the batches handed over, in
\* hand-off order, followed by what is still buffered.
Accepted(k) == Concat(handed[k]) \o BufferOf(k)

\* C36: an add of a snapshot to a key appends it to what the buffer has
\* taken for the key (batches handed over so far followed by the buffer)
\* and leaves every other key as it was; no other step changes that
\* sequence for any key. So nothing is lost, duplicated or reordered.
C36_ConservationAndOrder ==
    [][\A k \in Keys :
          Accepted(k)' = IF nextSnap' = nextSnap + 1 /\ lastCall'.key = k
                         THEN Append(Accepted(k), nextSnap')
                         ELSE Accepted(k)]_vars

\* C36 witness: a key has had two batches handed over, one of them after a
\* callback failed, and holds a snapshot added since.
C36_Witness ==
    \E k \in Keys :
        /\ Len(handed[k]) = 2
        /\ Len(BufferOf(k)) = 1
        /\ \E st \in settled : st.key = k /\ st.outcome = "throw"

(***************************************************************************)
(* Further claims about the SSEManager                                     *)
(***************************************************************************)
\* C37: a client id is in the subscriber set of a topic exactly when the
\* clients table holds the id with that topic as its subscription; hence no
\* subscriber set holds an id that is not in the clients table; and no
\* empty subscriber set is kept.
C37_SubscriptionIndexConsistent ==
    /\ \A t \in Topics, id \in ClientIds :
          (t \in DOMAIN incidentSubscriptions /\ id \in incidentSubscriptions[t])
              <=> (id \in DOMAIN clients /\ clients[id].incidentId = t)
    /\ \A t \in DOMAIN incidentSubscriptions : incidentSubscriptions[t] # {}

(***************************************************************************)
(* Further claims about ingestion sessions                                 *)
(***************************************************************************)
\* C38: the stream of every session of an open connection is `live`: it
\* has not been marked `ended` by another connection initialised with the
\* same stream id, and no session was stored for a stream that had ended.
C38_ActiveSessionMeansLive ==
    \A w \in DOMAIN sessions :
        wsState[w] = "open" =>
            \A i \in videoRows(videos, sessions[w].videoId) : videos[i].status = "live"

(***************************************************************************)
(* Claims about what an accepted snapshot message produces                 *)
(***************************************************************************)
EffectAs(e, kind) == [e EXCEPT !.kind = kind]

Follows(q, kind, before) ==
    effects[q].kind = kind => (q > 1 /\ effects[q - 1] = EffectAs(effects[q], before))

CountIn(seq, x) == Cardinality({i \in 1..Len(seq) : seq[i] = x})

\* The effects log and the tables, buffer calls, broadcasts and messages
\* sent agree; every persisted snapshot is followed at once by its add to
\* the buffer under the stream id of a session of its connection and by
\* its broadcast, and nothing else is in the log but acknowledgements that
\* follow the broadcast of their own snapshot.
EffectsInOrder ==
    /\ SelectSeq(effects, LAMBDA e : e.kind = "persist")
          = [i \in 1..Len(snapshots) |->
                [kind |-> "persist", ws |-> snapshots[i].ws, n |-> snapshots[i].n,
                 key |-> snapshots[i].videoId, snapshot |-> i]]
    /\ \A i, j \in 1..Len(snapshots) :
          (snapshots[i].ws = snapshots[j].ws /\ snapshots[i].n = snapshots[j].n) => i = j
    /\ bufferAdds = [i \in 1..Len(snapshots) |-> [key |-> snapshots[i].videoId, snapshot |-> i]]
    /\ \A i \in 1..Len(snapshots) : snapshots[i].videoId \in owned[snapshots[i].ws]
    /\ \A v \in VideoIds, w \in WS :
          broadcasts[<<"snapshotReceived", v, w>>]
              = Cardinality({i \in 1..Len(snapshots) :
                                snapshots[i].videoId = v /\ snapshots[i].ws = w})
    /\ \A w \in WS :
          CountIn(wsOut[w], "snapshot_ack")
              = Cardinality({q \in 1..Len(effects) :
                                effects[q].kind = "ack" /\ effects[q].ws = w})
    /\ \A q \in 1..Len(effects) :
          /\ effects[q].kind = "persist" =>
                /\ q + 2 <= Len(effects)
                /\ effects[q + 1] = EffectAs(effects[q], "buffer")
                /\ effects[q + 2] = EffectAs(effects[q], "broadcast")
          /\ Follows(q, "buffer", "persist")
          /\ Follows(q, "broadcast", "buffer")
          /\ Follows(q, "ack", "broadcast")

Acked(q) == q + 3 <= Len(effects) /\ effects[q + 3] = EffectAs(effects[q], "ack")

ErrorReplies ==
    {"error: Missing required fields: videoId, lat, lng", "error: Unknown message type",
     "error: Missing required field: scenario",
     "error: Session not initialized. Send init first."}

OnlySenderToldOf(w, replies) ==
    /\ Len(wsOut'[w]) = Len(wsOut[w]) + 1
    /\ SubSeq(wsOut'[w], 1, Len(wsOut[w])) = wsOut[w]
    /\ wsOut'[w][Len(wsOut'[w])] \in replies
    /\ \A x \in WS \ {w} : wsOut'[x] = wsOut[x]

NothingProduced ==
    /\ snapshots' = snapshots
    /\ bufferAdds' = bufferAdds
    /\ broadcasts' = broadcasts
    /\ effects' = effects
    /\ sessions' = sessions
    /\ owned' = owned
    /\ wsState' = wsState

\* C33: a step that receives an init without a required field, a snapshot
\* without scenario or a message of unknown type sends one error to the
\* sender and nothing to anyone else, and changes no table, no session, no
\* pending handler, no buffer call and no broadcast; the connection stays
\* open.
C33_InvalidMessageChangesNothing ==
    [][\A w \in WS, cause \in Causes :
          recv'[w] = Append(recv[w], cause)
              => /\ OnlySenderToldOf(w, ErrorReplies)
                 /\ NothingProduced
                 /\ videos' = videos /\ incidents' = incidents
                 /\ tasks' = tasks
                 /\ wsState'[w] = "open"]_vars

\* C33 witness: a connection with a session sent a snapshot without
\* scenario, was told so, and its next snapshot was accepted and
\* acknowledged.
C33_Witness ==
    \E w \in WS :
        /\ recv[w] = <<"init", "snapshotNoScenario", "snapshot">>
        /\ wsOut[w] = <<"initialized", "error: Missing required field: scenario",
                        "snapshot_ack">>
        /\ w \in DOMAIN sessions /\ wsState[w] = "open"

SameMessage(t, u) == u.ws = t.ws /\ u.n = t.n

\* The handler of task t ends this step because its database call rejected.
Aborted(t) ==
    /\ t \in tasks /\ t.kind \in {"init", "snapshot"}
    /\ \A u \in tasks' : ~SameMessage(t, u)
    /\ \/ FailedOp(t) \in failedOps' \ failedOps
       \/ t.pc = "insertVideo" /\ videos' = videos

\* C32: when the database call of a handleInit or handleSnapshot rejects,
\* the sender alone is sent an error (no one is, once it has closed), no
\* snapshot is persisted, buffered, broadcast or acknowledged for the
\* message then or later, the sessions and every other pending handler are
\* as before, and an init of a connection without a session or a snapshot
\* of one with a session starts its handler whatever failed before.
C32_FailureAbortsOnlyThatOperation ==
    /\ [][\A t \in tasks :
            Aborted(t)
                => /\ IF wsState[t.ws] = "open"
                      THEN OnlySenderToldOf(t.ws, {"error: Invalid message format"})
                      ELSE wsOut' = wsOut
                   /\ NothingProduced
                   /\ tasks' = tasks \ {t}]_vars
    /\ [](\A f \in failedOps :
             /\ \A t \in tasks : ~SameMessage(f, t)
             /\ \A i \in 1..Len(snapshots) : ~SameMessage(f, snapshots[i])
             /\ \A q \in 1..Len(effects) : ~SameMessage(f, effects[q]))
    /\ [][\A w \in WS :
            /\ (recv'[w] = Append(recv[w], "init") /\ w \notin DOMAIN sessions)
                  => \E t \in tasks' \ tasks :
                        t.ws = w /\ t.kind = "init" /\ t.pc = "selectVideo"
            /\ (recv'[w] = Append(recv[w], "snapshot") /\ w \in DOMAIN sessions)
                  => \E t \in tasks' \ tasks :
                        t.ws = w /\ t.kind = "snapshot" /\ t.videoId = sessions[w].videoId]_vars

\* C32 witness: the init of a connection failed after its stream row had
\* been inserted, the connection was told, sent the init again and was
\* initialised, and its next snapshot was acknowledged.
C32_Witness ==
    \E w \in WS :
        /\ \E f \in failedOps : f.ws = w /\ f.kind = "init" /\ f.pc = "findIncident"
        /\ recv[w] = <<"init", "init", "snapshot">>
        /\ wsOut[w] = <<"error: Invalid message format", "initialized", "snapshot_ack">>
        /\ w \in DOMAIN sessions

(***************************************************************************)
(* Claims about the heartbeat                                              *)
(***************************************************************************)
\* C39: the interval of every connected response is set and its callback
\* finds the client registered, so the next tick writes a heartbeat to it;
\* and a heartbeat is only ever written to a response that is connected:
\* none to one that has closed or whose client was removed after a write
\* to it threw.
C39_Keepalive ==
    /\ [](\A r \in Res : Connected(r) => TimerRunning(r) /\ resId[r] \in DOMAIN clients)
    /\ [][\A r \in Res : resLog'[r] = Write(resLog[r], Event("heartbeat", NoTopic, 0))
                            => Connected(r)]_vars

(***************************************************************************)
(* Claims about the keys of the buffer                                     *)
(***************************************************************************)
StreamOf(a) == snapshots[bufferAdds[a].snapshot].videoId

\* C40: every snapshot is added to the buffer under the id of its own
\* stream, so the snapshots buffered under one key, of which every batch
\* of that key is made, are all of one stream and the key names it; this
\* for the snapshots of POST /snapshots as for those of a WebSocket session.
C40_BatchesNeverMixStreams ==
    /\ \A a \in 1..Len(bufferAdds) : bufferAdds[a].key = StreamOf(a)
    /\ \A a, b \in 1..Len(bufferAdds) :
          bufferAdds[a].key = bufferAdds[b].key => StreamOf(a) = StreamOf(b)

====
